---------------------------- MODULE Spec2Model ----------------------------
(***************************************************************************)
(* r5vm: a minimal RISC-V RV32I virtual machine.                           *)
(*                                                                         *)
(* The module models the .r5m image loader (src/src/main.c), the           *)
(* interpreter (src/src/r5vm.c) and the x86-32 template JIT                *)
(* (src/src/r5jit_x86.c).                                                  *)
(*                                                                         *)
(* A uint32_t is a pair <<lo, hi>> of 16-bit limbs (value lo + 65536*hi):  *)
(* TLC's integers stop at 2^31-1, and the program depends on the values    *)
(* above that (0xFFFFFFFF, sign bits, 32-bit wrap-around).  A uint64_t is  *)
(* four such limbs.                                                        *)
(***************************************************************************)
EXTENDS Integers, Sequences, FiniteSets, TLC

VARIABLES
    file,     \* the .r5m file handed to r5vm_load and the host's I/O behaviour
    req,      \* mem_size_requested of r5vm_load
    vm,       \* the interpreter's r5vm_t record
    lret,     \* r5vm_load: [st, code], st "none" before the call, "ret" with the
              \* return code once it has returned, "hang" when it never returns,
              \* "ub" when a write outside the sandbox faulted
    res,      \* host resources of r5vm_load: the open FILE and the calloc'ed sandbox
    build,    \* build configuration: [debug |-> R5VM_DEBUG is defined,
              \*                       size_bits |-> width of size_t and long,
              \*                       oob |-> what an access outside the
              \*                               sandbox does on the host,
              \*                       asserts |-> assert is compiled in (no
              \*                               NDEBUG), for the JIT]
    run,      \* r5vm_run: [st, i, max_steps, calls], st "idle" outside the
              \* call, "fault" when an access outside the sandbox faulted
    jit,      \* the JIT engine: its own r5vm_t (vmjit of main), the r5jitbuf_t
              \* and where the generated host code is executing; under
              \* SpecEmit the r5jitbuf_t alone, with the bytes of its buffer
    out,      \* bytes written to the host's stdout by the interpreter
    errs,     \* the messages handed to the error sink r5vm_error
    last      \* what the last operation on vm was and what it touched

vars == <<file, req, vm, lret, res, build, run, jit, out, errs, last>>

----------------------------------------------------------------------------
(* 32-bit words as two 16-bit limbs, little-endian.                        *)

B16 == 2^16

U32(n) == <<n % B16, n \div B16>>

ToNat(w) == w[1] + B16 * w[2]

Zero32 == <<0, 0>>

Max32 == <<B16 - 1, B16 - 1>>

Add32(a, b) ==
    LET s == a[1] + b[1]
    IN  <<s % B16, (a[2] + b[2] + (s \div B16)) % B16>>

Not32(a) == <<(B16 - 1) - a[1], (B16 - 1) - a[2]>>

Neg32(a) == Add32(Not32(a), <<1, 0>>)

Sub32(a, b) == Add32(a, Neg32(b))

RECURSIVE And16(_, _)
And16(x, y) ==
    IF x = 0 \/ y = 0 THEN 0
    ELSE (x % 2) * (y % 2) + 2 * And16(x \div 2, y \div 2)

RECURSIVE Or16(_, _)
Or16(x, y) ==
    IF x = 0 THEN y
    ELSE IF y = 0 THEN x
    ELSE (IF x % 2 = 1 \/ y % 2 = 1 THEN 1 ELSE 0) + 2 * Or16(x \div 2, y \div 2)

RECURSIVE Xor16(_, _)
Xor16(x, y) ==
    IF x = 0 THEN y
    ELSE IF y = 0 THEN x
    ELSE ((x + y) % 2) + 2 * Xor16(x \div 2, y \div 2)

And32(a, b) == <<And16(a[1], b[1]), And16(a[2], b[2])>>

Or32(a, b) == <<Or16(a[1], b[1]), Or16(a[2], b[2])>>

Xor32(a, b) == <<Xor16(a[1], b[1]), Xor16(a[2], b[2])>>

\* unsigned a < b
LtU32(a, b) == a[2] < b[2] \/ (a[2] = b[2] /\ a[1] < b[1])

LeU32(a, b) == ~LtU32(b, a)

\* the operands are compared as they are
LtS32_unsigned(a, b) == LtU32(a, b)

\* (int32_t)a < (int32_t)b: compare with the sign bits flipped
LtS32(a, b) ==
    LtU32(<<a[1], (a[2] + 2^15) % B16>>, <<b[1], (b[2] + 2^15) % B16>>)

\* a << n, 0 <= n <= 31
Shl32(a, n) ==
    IF n >= 16
    THEN <<0, (a[1] * 2^(n - 16)) % B16>>
    ELSE <<(a[1] * 2^n) % B16,
           (a[2] * 2^n + ((a[1] * 2^n) \div B16)) % B16>>

\* logical a >> n, 0 <= n <= 31
Shr32(a, n) ==
    IF n >= 16
    THEN <<a[2] \div 2^(n - 16), 0>>
    ELSE <<(a[1] \div 2^n) + (a[2] % 2^n) * 2^(16 - n), a[2] \div 2^n>>

\* arithmetic (int32_t)a >> n, 0 <= n <= 31
Sar32(a, n) ==
    IF a[2] >= 2^15 THEN Not32(Shr32(Not32(a), n)) ELSE Shr32(a, n)

\* 64-bit values of the loader: four limbs
U64(w) == <<w[1], w[2], 0, 0>>

Zero64 == <<0, 0, 0, 0>>

\* (uint32_t)a
Lo32(a) == <<a[1], a[2]>>

Add64(a, b) ==
    LET s1 == a[1] + b[1]
        s2 == a[2] + b[2] + (s1 \div B16)
        s3 == a[3] + b[3] + (s2 \div B16)
        s4 == a[4] + b[4] + (s3 \div B16)
    IN  <<s1 % B16, s2 % B16, s3 % B16, s4 % B16>>

LtU64(a, b) ==
    \/ a[4] < b[4]
    \/ a[4] = b[4] /\ a[3] < b[3]
    \/ a[4] = b[4] /\ a[3] = b[3] /\ a[2] < b[2]
    \/ a[4] = b[4] /\ a[3] = b[3] /\ a[2] = b[2] /\ a[1] < b[1]

\* n is a nonzero power of two
RECURSIVE IsPow2Nat(_)
IsPow2Nat(n) == IF n <= 1 THEN n = 1 ELSE n % 2 = 0 /\ IsPow2Nat(n \div 2)

IsPow2(w) ==
    \/ w[2] = 0 /\ IsPow2Nat(w[1])
    \/ w[1] = 0 /\ IsPow2Nat(w[2])

----------------------------------------------------------------------------
(* The r5vm_t record.                                                      *)

NoRegs == [i \in 0..31 |-> Zero32]

\* memset(vm, 0, sizeof(*vm)): every field zero, no sandbox
ZeroVM ==
    [regs |-> NoRegs, pc |-> Zero32, mem |-> <<>>,
     mem_size |-> Zero32, mem_mask |-> Zero32,
     code_offset |-> Zero32, code_size |-> Zero32,
     data_offset |-> Zero32, data_size |-> Zero32,
     bss_offset |-> Zero32, bss_size |-> Zero32, entry |-> Zero32]

\* the JIT before r5jit_x86 is called
NoJit ==
    [st |-> "idle", vm |-> ZeroVM, pos |-> 0, error |-> FALSE,
     ip_map |-> <<>>, code |-> <<>>, at |-> 0, out |-> <<>>,
     stack |-> <<>>, popped |-> <<>>]

\* pc = 0, as the first version of the VM did (src/r5vm.c)
r5vm_reset_pc0(v) == [v EXCEPT !.regs = NoRegs, !.pc = Zero32]

r5vm_reset(v) == [v EXCEPT !.regs = NoRegs, !.pc = v.entry]

----------------------------------------------------------------------------
(* The image loader, src/src/main.c.                                       *)

\* "r5vm"
R5VM_MAGIC_STR == <<114, 53, 118, 109>>

R5VM_FILE_VERSION == 1

\* sizeof(r5vm_header_t)
HDR_SIZE == 64

rd16le(p) == p[1] + 256 * p[2]

rd32le(p) == <<p[1] + 256 * p[2], p[3] + 256 * p[4]>>

\* a size_t value after an operation: kept to the build's width
SizeT(a, size_bits) == IF size_bits = 32 THEN <<a[1], a[2], 0, 0>> ELSE a

\* while (pow2_mem < total_mem) pow2_mem *= 2;
\* the loop does not end once pow2_mem has wrapped to 0 (0 * 2 = 0 < total_mem)
RECURSIVE Pow2Loop(_, _, _)
Pow2Loop(pow2_mem, total_mem, size_bits) ==
    IF LtU64(pow2_mem, total_mem)
    THEN LET next == SizeT(Add64(pow2_mem, pow2_mem), size_bits)
         IN  IF next = Zero64
             THEN [returns |-> FALSE, val |-> Zero32]
             ELSE Pow2Loop(next, total_mem, size_bits)
    ELSE [returns |-> TRUE, val |-> Lo32(pow2_mem)]

\* uint32_t mem_size_power2(size_t override_mem, size_t fsize)
mem_size_power2(override_mem, fsize, size_bits) ==
    LET total_mem == IF LtU32(fsize, override_mem) THEN override_mem ELSE fsize
    IN  Pow2Loop(U64(<<2, 0>>), U64(total_mem), size_bits)

\* largest sandbox calloc hands out in the model: 2^MaxAllocLog bytes
MaxAllocLog == 7

\* calloc(1, mem_size) returns non-NULL (also for mem_size == 0, as malloc
\* implementations do unless memory is short)
CallocOK(f, mem_size) ==
    /\ f.io # "nomem"
    /\ mem_size[2] = 0
    /\ mem_size[1] <= 2^MaxAllocLog

\* fseek(f, off, SEEK_SET) succeeds: off is converted to long, and a negative
\* offset is refused
FseekOK(f, off, which, size_bits) ==
    f.io # which /\ (size_bits = 64 \/ off[2] < 2^15)

\* the bytes fread delivers at file offset off, at most n of them
Fread(f, off, n) ==
    LET avail == IF off[2] # 0 THEN 0 ELSE Len(f.payload) - (off[1] - HDR_SIZE)
        got   == IF avail <= 0 THEN 0 ELSE IF n < avail THEN n ELSE avail
    IN  [i \in 1..got |-> f.payload[(off[1] - HDR_SIZE) + i]]

\* mem with blob written at byte index at
Place(mem, at, blob) ==
    [i \in DOMAIN mem |->
        IF i >= at /\ i < at + Len(blob) THEN blob[i - at + 1] ELSE mem[i]]

LoadRet(st, code, v, open, live, sized, size) ==
    [ret |-> [st |-> st, code |-> code], vm |-> v,
     res |-> [file_open |-> open, mem_live |-> live],
     sized |-> sized, mem_size |-> size]

\* lines 185-186: h.load_addr + ((uint64_t)h.code_size + h.data_size + h.bss_size)
Needed64(h) ==
    Add64(U64(h.load_addr),
          Add64(Add64(U64(h.code_size), U64(h.data_size)), U64(h.bss_size)))

\* lines 229-242
InitVM(h, mem, mem_size) ==
    LET v1 == [ZeroVM EXCEPT
                  !.mem = mem,
                  !.mem_size = mem_size,
                  !.mem_mask = Sub32(mem_size, <<1, 0>>),
                  !.code_offset = h.load_addr,
                  !.code_size = h.code_size,
                  !.data_offset = Add32(h.load_addr, h.code_size),
                  !.data_size = h.data_size,
                  !.bss_size = h.bss_size]
        v2 == [v1 EXCEPT !.bss_offset = Add32(v1.data_offset, h.data_size)]
        v3 == [v2 EXCEPT !.entry = And32(h.entry, v2.mem_mask)]
    IN  r5vm_reset(v3)

\* fread(&mem[at], 1, n, f) stays inside the n bytes calloc returned
InSandbox(mem, at, n) == at[2] = 0 /\ at[1] + n <= Cardinality(DOMAIN mem)

\* line 218: &mem[h.load_addr + h.code_size]
DataAt(h) == Add32(h.load_addr, h.code_size)

\* fread writes n > 0 bytes of which some lie behind the block calloc
\* returned, and the host faults on the write
Overrun(mem, at, n) == n > 0 /\ ~InSandbox(mem, at, n) /\ build.oob.fault

\* lines 194-225: seek and read .code, then .data when data_size > 0.
\* st is "ok", "fail" (return -7) or "ub" (fread wrote past the sandbox and
\* the host faulted); a write past the sandbox that does not fault lands in
\* host memory and leaves the sandbox bytes alone
LoadSections(f, h, mem0, size_bits) ==
    LET ncode == IF h.code_size[2] # 0 THEN B16 ELSE h.code_size[1]
        ndata == IF h.data_size[2] # 0 THEN B16 ELSE h.data_size[1]
        code  == Fread(f, h.code_offset, ncode)
        data  == Fread(f, h.data_offset, ndata)
        mem1  == Place(mem0, ToNat(h.load_addr), code)
    IN  IF ~FseekOK(f, h.code_offset, "seekcode", size_bits)
        THEN [st |-> "fail", mem |-> mem0]
        ELSE IF Overrun(mem0, h.load_addr, Len(code))
        THEN [st |-> "ub", mem |-> mem0]
        ELSE IF U32(Len(code)) # h.code_size THEN [st |-> "fail", mem |-> mem1]
        ELSE IF h.data_size = Zero32 THEN [st |-> "ok", mem |-> mem1]
        ELSE IF ~FseekOK(f, h.data_offset, "seekdata", size_bits)
        THEN [st |-> "fail", mem |-> mem1]
        ELSE IF Overrun(mem1, DataAt(h), Len(data))
        THEN [st |-> "ub", mem |-> mem1]
        ELSE IF U32(Len(data)) # h.data_size THEN [st |-> "fail", mem |-> mem1]
        ELSE [st |-> "ok", mem |-> Place(mem1, ToNat(DataAt(h)), data)]

\* lines 143-154: the header fields, decoded byte by byte
DecodeHeader(raw) ==
    [magic_str   |-> raw.magic_str,
     version     |-> rd16le(raw.version),
     flags       |-> rd16le(raw.flags),
     entry       |-> rd32le(raw.entry),
     load_addr   |-> rd32le(raw.load_addr),
     ram_size    |-> rd32le(raw.ram_size),
     code_offset |-> rd32le(raw.code_offset),
     code_size   |-> rd32le(raw.code_size),
     data_offset |-> rd32le(raw.data_offset),
     data_size   |-> rd32le(raw.data_size),
     bss_size    |-> rd32le(raw.bss_size)]

\* lines 156-171: magic, 64-bit flag, version; 0 when the header passes
HeaderRejected(h) ==
    IF h.magic_str # R5VM_MAGIC_STR THEN -3
    ELSE IF h.flags % 2 = 1 THEN -4
    ELSE IF h.version # R5VM_FILE_VERSION THEN -4
    ELSE 0

\* the sandbox is kept on the failure paths
LiveAfterFailure_leak == TRUE

\* free(mem) on every failure path after calloc (lines 189, 197, 204, 213,
\* 221): the sandbox is no longer allocated
LiveAfterFailure == FALSE

\* r5vm_load(path, vm, mem_size_requested); v is *vm before the call
r5vm_load(f, v, mem_size_requested, size_bits) ==
    IF ~f.exists THEN LoadRet("ret", -1, v, FALSE, FALSE, FALSE, Zero32)
    ELSE IF f.io = "shorthdr" THEN LoadRet("ret", -2, v, FALSE, FALSE, FALSE, Zero32)
    ELSE
    LET h == DecodeHeader(f.hdr)
        rej == HeaderRejected(h)
    IN  IF rej # 0 THEN LoadRet("ret", rej, v, FALSE, FALSE, FALSE, Zero32)
        ELSE
        LET p2 == mem_size_power2(mem_size_requested, h.ram_size, size_bits)
            mem_size == p2.val
        IN  IF ~p2.returns
            THEN LoadRet("hang", 0, v, TRUE, FALSE, FALSE, Zero32)
            ELSE IF And32(mem_size, Sub32(mem_size, <<1, 0>>)) # Zero32
            THEN LoadRet("abort", 0, v, TRUE, FALSE, TRUE, mem_size)
            ELSE IF ~CallocOK(f, mem_size)
            THEN LoadRet("ret", -5, v, FALSE, FALSE, TRUE, mem_size)
            ELSE
            LET mem0 == [i \in 0..(mem_size[1] - 1) |-> 0]
            IN  IF LtU64(U64(h.ram_size), Needed64(h))
                THEN LoadRet("ret", -6, v, FALSE, LiveAfterFailure,
                             TRUE, mem_size)
                ELSE
                LET ld == LoadSections(f, h, mem0, size_bits)
                IN  IF ld.st = "ub"
                    THEN LoadRet("ub", 0, v, TRUE, TRUE, TRUE, mem_size)
                    ELSE IF ld.st = "fail"
                    THEN LoadRet("ret", -7, v, FALSE, LiveAfterFailure,
                                 TRUE, mem_size)
                    ELSE LoadRet("ret", 0,
                                 InitVM(h, ld.mem, mem_size),
                                 FALSE, TRUE, TRUE, mem_size)

----------------------------------------------------------------------------
(* Loader runs: one call of r5vm_load on a file and a requested size.      *)

LE16(n) == <<n % 256, n \div 256>>

LE32(w) == <<w[1] % 256, w[1] \div 256, w[2] % 256, w[2] \div 256>>

\* addi a0, x0, 5 ; ecall ; then four bytes of .data
Payload == <<19, 5, 80, 0, 115, 0, 0, 0, 170, 187, 204, 221>>

\* an uninitialised r5vm_t on the caller's stack
JunkVM ==
    [ZeroVM EXCEPT !.regs = [i \in 0..31 |-> <<i, 57005>>],
                   !.pc = <<4660, 22136>>,
                   !.mem_size = <<7, 0>>,
                   !.entry = <<12, 0>>]

Bodies ==
    [entry       : {U32(0), U32(4)},
     load_addr   : {U32(0), U32(8), Max32},
     ram_size    : {U32(0), U32(16), U32(24), <<1, 2^15>>},
     code_offset : {U32(HDR_SIZE)},
     code_size   : {U32(0), U32(4), U32(8)},
     data_offset : {U32(HDR_SIZE + 8), U32(HDR_SIZE + 11), <<0, 2^15>>},
     data_size   : {U32(0), U32(2)},
     bss_size    : {U32(0), U32(4), Max32}]

FewBodies ==
    {b \in Bodies :
        /\ b.entry = U32(0)
        /\ b.code_size = U32(8)
        /\ b.data_offset = U32(HDR_SIZE + 8)
        /\ b.data_size = U32(2)
        /\ b.bss_size = U32(4)
        /\ b.ram_size \in {U32(16), U32(24)}}

Reqs == {U32(0), U32(40), Max32}

MkFile(magic, version, flags, b, payload, io, exists) ==
    [exists  |-> exists,
     io      |-> io,
     payload |-> payload,
     hdr     |-> [magic_str   |-> magic,
                  version     |-> LE16(version),
                  flags       |-> LE16(flags),
                  entry       |-> LE32(b.entry),
                  load_addr   |-> LE32(b.load_addr),
                  ram_size    |-> LE32(b.ram_size),
                  code_offset |-> LE32(b.code_offset),
                  code_size   |-> LE32(b.code_size),
                  data_offset |-> LE32(b.data_offset),
                  data_size   |-> LE32(b.data_size),
                  bss_size    |-> LE32(b.bss_size)]]

LoadInputs ==
    \* every header field the loader validates, on a few section layouts
    {<<MkFile(m, v, fl, b, Payload, "ok", TRUE), r>> :
        m \in {R5VM_MAGIC_STR, <<114, 53, 118, 77>>},
        v \in {R5VM_FILE_VERSION, R5VM_FILE_VERSION + 1},
        fl \in {0, 1, 2, 3},
        b \in FewBodies, r \in {U32(0)}}
    \cup
    \* every I/O failure, on a few section layouts
    {<<MkFile(R5VM_MAGIC_STR, R5VM_FILE_VERSION, 0, b, Payload, io, ex), r>> :
        io \in {"nomem", "seekcode", "seekdata", "shorthdr"},
        ex \in BOOLEAN, b \in FewBodies, r \in {U32(0), U32(40)}}
    \cup
    \* a valid header: every section layout and requested size
    {<<MkFile(R5VM_MAGIC_STR, R5VM_FILE_VERSION, 0, b, Payload, "ok", TRUE), r>> :
        b \in Bodies, r \in Reqs}

\* what the host does with an access outside the block calloc returned: the
\* access faults, or it reads the byte the host has there and writes land in
\* host memory
OobOutcomes ==
    {[fault |-> TRUE, byte |-> 0], [fault |-> FALSE, byte |-> 0],
     [fault |-> FALSE, byte |-> 19]}

\* the builds of the program: with or without R5VM_DEBUG, size_t of 32 or 64
\* bits
Builds == [debug : BOOLEAN, size_bits : {32, 64}, oob : OobOutcomes]

\* the builds of the JIT, for the x86 of 32 bits: with assert compiled in,
\* or compiled out by NDEBUG
JitBuilds ==
    [debug : BOOLEAN, size_bits : {32}, oob : {b \in OobOutcomes : b.fault},
     asserts : BOOLEAN]

InitLoad ==
    /\ \E in \in LoadInputs : file = in[1] /\ req = in[2]
    /\ vm \in {ZeroVM, JunkVM}
    /\ lret = [st |-> "none", code |-> 0]
    /\ res = [file_open |-> FALSE, mem_live |-> FALSE]
    /\ build \in {b \in Builds : ~b.debug /\ b.oob.byte = 0}
    /\ run = [st |-> "idle", i |-> 0, max_steps |-> 0, calls |-> 0]
    /\ jit = NoJit
    /\ out = <<>>
    /\ errs = <<>>
    /\ last = [op |-> "init"]

Load ==
    /\ lret.st = "none"
    /\ LET r == r5vm_load(file, vm, req, build.size_bits)
       IN  /\ lret' = r.ret
           /\ vm' = r.vm
           /\ res' = r.res
           /\ last' = [op |-> "load", sized |-> r.sized, mem_size |-> r.mem_size,
                       before |-> vm]
    /\ UNCHANGED <<file, req, build, run, jit, out, errs>>

NextLoad == Load

SpecLoad == InitLoad /\ [][NextLoad]_vars

----------------------------------------------------------------------------
(* Instruction fields, src/src/r5vm.h. An instruction word is a 32-bit     *)
(* value <<lo, hi>>.                                                       *)

\* SIGN_EXT32(x, bits) for x < 2^bits
SIGN_EXT32(x, bits) ==
    IF x >= 2^(bits - 1) THEN Neg32(U32(2^bits - x)) ELSE U32(x)

OPCODE(inst) == inst[1] % 128

RD(inst) == (inst[1] \div 128) % 32

FUNCT3(inst) == (inst[1] \div 4096) % 8

RS1(inst) == (inst[1] \div 32768) + 2 * (inst[2] % 16)

RS2(inst) == (inst[2] \div 16) % 32

FUNCT7(inst) == inst[2] \div 512

IMM_I(inst) == SIGN_EXT32(inst[2] \div 16, 12)

IMM_S(inst) == SIGN_EXT32(FUNCT7(inst) * 32 + RD(inst), 12)

IMM_U(inst) == <<(inst[1] \div 4096) * 4096, inst[2]>>

IMM_B(inst) ==
    SIGN_EXT32((inst[2] \div 32768) * 4096
                 + ((inst[1] \div 128) % 2) * 2048
                 + ((inst[2] \div 512) % 64) * 32
                 + ((inst[1] \div 256) % 16) * 2, 13)

IMM_J(inst) ==
    SIGN_EXT32((inst[2] \div 32768) * 1048576
                 + ((inst[1] \div 4096) + 16 * (inst[2] % 16)) * 4096
                 + ((inst[2] \div 16) % 2) * 2048
                 + ((inst[2] \div 32) % 1024) * 2, 21)

R5VM_OPCODE_R_TYPE == 51
R5VM_OPCODE_I_TYPE == 19
R5VM_OPCODE_LW == 3
R5VM_OPCODE_SW == 35
R5VM_OPCODE_SYSTEM == 115
R5VM_OPCODE_AUIPC == 23
R5VM_OPCODE_BRANCH == 99
R5VM_OPCODE_LUI == 55
R5VM_OPCODE_JAL == 111
R5VM_OPCODE_JALR == 103
R5VM_OPCODE_FENCE == 15

----------------------------------------------------------------------------
(* The interpreter, src/src/r5vm.c.                                        *)

\* the byte index (a & vm->mem_mask) of an access; an index of 2^31 or more,
\* which no sandbox of the model reaches, is written -1
MemIdx(v, a) ==
    LET m == And32(a, v.mem_mask)
    IN  IF m[2] >= 2^15 THEN -1 ELSE ToNat(m)

\* the indices addr + 0 .. addr + n - 1, each through the mask
Touched(v, addr, n) == {MemIdx(v, Add32(addr, U32(i))) : i \in 0..(n - 1)}

\* vm->mem[a & vm->mem_mask]: a byte of the sandbox, or the byte the host has
\* at an index the sandbox does not have
Rd8(v, a) ==
    IF MemIdx(v, a) \in DOMAIN v.mem THEN v.mem[MemIdx(v, a)]
    ELSE build.oob.byte

\* (int8_t)b, (int16_t)h as 32-bit values
SExt8(b) == IF b >= 128 THEN <<65280 + b, 65535>> ELSE <<b, 0>>

SExt16(h) == IF h >= 32768 THEN <<h, 65535>> ELSE <<h, 0>>

Bool32(b) == IF b THEN <<1, 0>> ELSE Zero32

\* the outcome of the decode/execute switch
Done(v, retcode, err, acc, putc) ==
    [vm |-> v, retcode |-> retcode, err |-> err, acc |-> acc, putc |-> putc]

Ok(v) == Done(v, TRUE, "none", {}, -1)

\* an unknown funct3 is reported in every build
Unknown_always(v, dbg, msg) == Done(v, FALSE, msg, {}, -1)

\* an unknown funct3 is reported only when R5VM_DEBUG is defined
Unknown(v, dbg, msg) ==
    IF dbg THEN Done(v, FALSE, msg, {}, -1) ELSE Ok(v)

SetR(v, rd, val) == [v EXCEPT !.regs[rd] = val]

\* the count saturates at 31 instead of being cut to 5 bits
ShiftCount_saturate(w) == IF w[1] < 32 /\ w[2] = 0 THEN w[1] ELSE 31

\* lines 88-93 and 115-121: the shift count is (x & 0x1F)
ShiftCount(w) == w[1] % 32

\* lines 77-103
ExecRType(v, inst, dbg) ==
    LET a  == v.regs[RS1(inst)]
        b  == v.regs[RS2(inst)]
        rd == RD(inst)
        sh == ShiftCount(b)
        f3 == FUNCT3(inst)
    IN  IF f3 = 0 THEN Ok(SetR(v, rd, IF FUNCT7(inst) = 32 THEN Sub32(a, b)
                                                              ELSE Add32(a, b)))
        ELSE IF f3 = 4 THEN Ok(SetR(v, rd, Xor32(a, b)))
        ELSE IF f3 = 6 THEN Ok(SetR(v, rd, Or32(a, b)))
        ELSE IF f3 = 7 THEN Ok(SetR(v, rd, And32(a, b)))
        ELSE IF f3 = 1 THEN Ok(SetR(v, rd, Shl32(a, sh)))
        ELSE IF f3 = 5 THEN Ok(SetR(v, rd, IF FUNCT7(inst) = 32 THEN Sar32(a, sh)
                                                                   ELSE Shr32(a, sh)))
        ELSE IF f3 = 2 THEN Ok(SetR(v, rd, Bool32(LtS32(a, b))))
        ELSE Ok(SetR(v, rd, Bool32(LtU32(a, b))))

\* funct3 == 5 is SRLI for every funct7 other than 0x20
ExecIType_anysrli(v, inst, dbg) ==
    LET a   == v.regs[RS1(inst)]
        imm == IMM_I(inst)
        rd  == RD(inst)
        sh  == ShiftCount(imm)
        f3  == FUNCT3(inst)
        f7  == FUNCT7(inst)
    IN  IF f3 = 0 THEN Ok(SetR(v, rd, Add32(a, imm)))
        ELSE IF f3 = 4 THEN Ok(SetR(v, rd, Xor32(a, imm)))
        ELSE IF f3 = 6 THEN Ok(SetR(v, rd, Or32(a, imm)))
        ELSE IF f3 = 7 THEN Ok(SetR(v, rd, And32(a, imm)))
        ELSE IF f3 = 2 THEN Ok(SetR(v, rd, Bool32(LtS32(a, imm))))
        ELSE IF f3 = 3 THEN Ok(SetR(v, rd, Bool32(LtU32(a, imm))))
        ELSE IF f3 = 1 THEN (IF f7 = 0 THEN Ok(SetR(v, rd, Shl32(a, sh))) ELSE Ok(v))
        ELSE IF f7 = 32 THEN Ok(SetR(v, rd, Sar32(a, sh)))
        ELSE Ok(SetR(v, rd, Shr32(a, sh)))

\* lines 105-130
ExecIType(v, inst, dbg) ==
    LET a   == v.regs[RS1(inst)]
        imm == IMM_I(inst)
        rd  == RD(inst)
        sh  == ShiftCount(imm)
        f3  == FUNCT3(inst)
        f7  == FUNCT7(inst)
    IN  IF f3 = 0 THEN Ok(SetR(v, rd, Add32(a, imm)))
        ELSE IF f3 = 4 THEN Ok(SetR(v, rd, Xor32(a, imm)))
        ELSE IF f3 = 6 THEN Ok(SetR(v, rd, Or32(a, imm)))
        ELSE IF f3 = 7 THEN Ok(SetR(v, rd, And32(a, imm)))
        ELSE IF f3 = 2 THEN Ok(SetR(v, rd, Bool32(LtS32(a, imm))))
        ELSE IF f3 = 3 THEN Ok(SetR(v, rd, Bool32(LtU32(a, imm))))
        ELSE IF f3 = 1 THEN (IF f7 = 0 THEN Ok(SetR(v, rd, Shl32(a, sh))) ELSE Ok(v))
        ELSE IF f7 = 0 THEN Ok(SetR(v, rd, Shr32(a, sh)))
        ELSE IF f7 = 32 THEN Ok(SetR(v, rd, Sar32(a, sh)))
        ELSE Ok(v)

\* addr > vm->mem_size - 4, the check of the R5VM_DEBUG build
OutOfBounds(v, addr) == LtU32(Sub32(v.mem_size, <<4, 0>>), addr)

\* lines 140-168
ExecLoad(v, inst, dbg) ==
    LET addr == Add32(v.regs[RS1(inst)], IMM_I(inst))
        rd   == RD(inst)
        f3   == FUNCT3(inst)
        b0   == Rd8(v, addr)
        b1   == Rd8(v, Add32(addr, <<1, 0>>))
        b2   == Rd8(v, Add32(addr, <<2, 0>>))
        b3   == Rd8(v, Add32(addr, <<3, 0>>))
        val  == IF f3 = 0 THEN SExt8(b0)
                ELSE IF f3 = 1 THEN SExt16(b0 + 256 * b1)
                ELSE IF f3 = 2 THEN <<b0 + 256 * b1, b2 + 256 * b3>>
                ELSE IF f3 = 4 THEN <<b0, 0>>
                ELSE <<b0 + 256 * b1, 0>>
        acc  == Touched(v, addr, 4)
    IN  IF dbg /\ OutOfBounds(v, addr)
        THEN Done(v, FALSE, "Memory access out of bounds", {}, -1)
        ELSE IF f3 \in {0, 1, 2, 4, 5}
        THEN Done(SetR(v, rd, val), TRUE, "none", acc, -1)
        ELSE IF dbg THEN Done(v, FALSE, "Unknown Load funct3", acc, -1)
        ELSE Done(v, TRUE, "none", acc, -1)

\* the low n bytes of val stored at addr + 0 .. addr + n - 1, through the mask
StoreBytes(v, addr, val, n) ==
    LET byte(i) == IF i = 0 THEN val[1] % 256
                   ELSE IF i = 1 THEN val[1] \div 256
                   ELSE IF i = 2 THEN val[2] % 256
                   ELSE val[2] \div 256
        hit(j)  == {i \in 0..(n - 1) : MemIdx(v, Add32(addr, U32(i))) = j}
    IN  [v EXCEPT !.mem =
            [j \in DOMAIN v.mem |->
                IF hit(j) = {} THEN v.mem[j]
                ELSE byte(CHOOSE i \in hit(j) : \A k \in hit(j) : i <= k)]]

\* lines 171-199
ExecStore(v, inst, dbg) ==
    LET addr == Add32(v.regs[RS1(inst)], IMM_S(inst))
        val  == v.regs[RS2(inst)]
        f3   == FUNCT3(inst)
        n    == IF f3 = 2 THEN 4 ELSE IF f3 = 1 THEN 2 ELSE 1
    IN  IF dbg /\ OutOfBounds(v, addr)
        THEN Done(v, FALSE, "Memory access out of bounds", {}, -1)
        ELSE IF f3 \in {0, 1, 2}
        THEN Done(StoreBytes(v, addr, val, n), TRUE, "none", Touched(v, addr, n), -1)
        ELSE Unknown(v, dbg, "Illegal store width")

\* the comparison of a branch (lines 203-208 of r5vm.c; the conditional
\* jump of emit_beq .. emit_bge in r5jit_x86.c)
BranchTaken(v, inst) ==
    LET a  == v.regs[RS1(inst)]
        b  == v.regs[RS2(inst)]
        f3 == FUNCT3(inst)
    IN  IF f3 = 0 THEN a = b
        ELSE IF f3 = 1 THEN a # b
        ELSE IF f3 = 6 THEN LtU32(a, b)
        ELSE IF f3 = 7 THEN ~LtU32(a, b)
        ELSE IF f3 = 4 THEN LtS32(a, b)
        ELSE ~LtS32(a, b)

\* lines 201-216; vm->pc is already the address of the next instruction
ExecBranch(v, inst, dbg) ==
    LET target == And32(Add32(Sub32(v.pc, <<4, 0>>), IMM_B(inst)), v.mem_mask)
    IN  IF FUNCT3(inst) \in {2, 3} THEN Unknown(v, dbg, "Unknown Branch funct3")
        ELSE IF BranchTaken(v, inst) THEN Ok([v EXCEPT !.pc = target])
        ELSE Ok(v)

\* the jump target is left as it is
ExecJal_nomask(v, inst) ==
    Ok([SetR(v, RD(inst), v.pc) EXCEPT
           !.pc = Sub32(Add32(v.pc, IMM_J(inst)), <<4, 0>>)])

\* lines 217-219
ExecJal(v, inst) ==
    Ok([SetR(v, RD(inst), v.pc) EXCEPT
           !.pc = And32(Sub32(Add32(v.pc, IMM_J(inst)), <<4, 0>>), v.mem_mask)])

\* lines 223-236: R[rd] is written first, then R[rs1] is read
ExecJalr(v, inst, dbg) ==
    LET v1 == SetR(v, RD(inst), v.pc)
        t  == Add32(v1.regs[RS1(inst)], IMM_I(inst))
    IN  IF FUNCT3(inst) = 0
        THEN Ok([v1 EXCEPT !.pc = And32(<<(t[1] \div 2) * 2, t[2]>>, v.mem_mask)])
        ELSE Unknown(v, dbg, "Unknown JALR funct3")

\* lines 238-254: the selector is a7, whatever funct3 and imm12 are
ExecSystem(v) ==
    IF v.regs[17] = Zero32 THEN Done(v, FALSE, "none", {}, -1)
    ELSE IF v.regs[17] = <<1, 0>> THEN Done(v, TRUE, "none", {}, v.regs[10][1] % 256)
    ELSE Done(v, FALSE, "none", {}, -1)

\* lines 75-260: switch (OPCODE(inst))
Exec(v, inst, dbg) ==
    LET op == OPCODE(inst)
    IN  IF op = R5VM_OPCODE_R_TYPE THEN ExecRType(v, inst, dbg)
        ELSE IF op = R5VM_OPCODE_I_TYPE THEN ExecIType(v, inst, dbg)
        ELSE IF op = R5VM_OPCODE_AUIPC
        THEN Ok(SetR(v, RD(inst), Add32(Sub32(v.pc, <<4, 0>>), IMM_U(inst))))
        ELSE IF op = R5VM_OPCODE_LUI THEN Ok(SetR(v, RD(inst), IMM_U(inst)))
        ELSE IF op = R5VM_OPCODE_LW THEN ExecLoad(v, inst, dbg)
        ELSE IF op = R5VM_OPCODE_SW THEN ExecStore(v, inst, dbg)
        ELSE IF op = R5VM_OPCODE_BRANCH THEN ExecBranch(v, inst, dbg)
        ELSE IF op = R5VM_OPCODE_JAL THEN ExecJal(v, inst)
        ELSE IF op = R5VM_OPCODE_JALR THEN ExecJalr(v, inst, dbg)
        ELSE IF op = R5VM_OPCODE_SYSTEM THEN ExecSystem(v)
        ELSE IF op = R5VM_OPCODE_FENCE THEN Ok(v)
        ELSE Done(v, FALSE, "Unknown opcode", {}, -1)

\* x0 keeps what the instruction wrote
EnforceZero_skip(regs) == regs

\* line 262: R[0] = 0
EnforceZero(regs) == [regs EXCEPT ![0] = Zero32]

\* line 69: vm->pc = (vm->pc + 4) & vm->mem_mask
NextPc(v) == And32(Add32(v.pc, <<4, 0>>), v.mem_mask)

\* lines 58-62: the instruction word at pc, byte by byte through the mask
Fetch(v) ==
    <<Rd8(v, v.pc) + 256 * Rd8(v, Add32(v.pc, <<1, 0>>)),
      Rd8(v, Add32(v.pc, <<2, 0>>)) + 256 * Rd8(v, Add32(v.pc, <<3, 0>>))>>

\* static bool r5vm_step(r5vm_t* vm)
r5vm_step(v, dbg) ==
    LET inst    == Fetch(v)
        fetched == Touched(v, v.pc, 4)
    IN  IF dbg /\ LtU32(Sub32(v.mem_size, <<4, 0>>), Add32(v.pc, <<4, 0>>))
        THEN Done(v, FALSE, "PC out of bounds", fetched, -1)
        ELSE
        LET x == Exec([v EXCEPT !.pc = NextPc(v)], inst, dbg)
        IN  [x EXCEPT !.vm.regs = EnforceZero(x.vm.regs),
                      !.acc = x.acc \cup fetched]

----------------------------------------------------------------------------
(* The template JIT, src/src/r5jit_x86.c. The generated host code is kept  *)
(* as the list of templates in emission order: code[k] is the template of  *)
(* the k-th compiled instruction, off its offset in the code buffer.       *)

\* bytes of r5jit_emit_prolog (lines 113-117) and r5jit_emit_epilog (119-123)
PrologSize == 7

EpilogSize == 3

\* 5 bytes of "add eax, imm32" that a template leaves out for a zero immediate
OptImm(imm) == IF imm = Zero32 THEN 0 ELSE 5

\* the bytes the template of inst takes in the code buffer; every emit_*
\* function of an instruction with a destination returns at once for rd == 0
TemplateSize(inst) ==
    LET op == OPCODE(inst)
        f3 == FUNCT3(inst)
        f7 == FUNCT7(inst)
        rd == RD(inst)
        sh == IF IMM_I(inst)[1] % 32 = 0 THEN 0 ELSE 3
    IN  IF op = R5VM_OPCODE_R_TYPE
        THEN IF rd = 0 THEN 0
             ELSE IF f3 \in {0, 4, 6, 7} THEN 9
             ELSE IF f3 \in {1, 5} THEN 11
             ELSE 17
        ELSE IF op = R5VM_OPCODE_I_TYPE
        THEN IF f3 = 1 /\ f7 # 0 THEN 0
             ELSE IF f3 = 5 /\ f7 \notin {0, 32} THEN 0
             ELSE IF rd = 0 THEN 0
             ELSE IF f3 = 0 THEN 6 + OptImm(IMM_I(inst))
             ELSE IF f3 \in {4, 6, 7} THEN 11
             ELSE IF f3 \in {2, 3} THEN 17
             ELSE 6 + sh
        ELSE IF op \in {R5VM_OPCODE_AUIPC, R5VM_OPCODE_LUI}
        THEN IF rd = 0 THEN 0 ELSE 8
        ELSE IF op = R5VM_OPCODE_LW
        THEN IF rd = 0 \/ f3 \notin {0, 1, 2, 4, 5} THEN 0
             ELSE OptImm(IMM_I(inst))
                    + (IF f3 = 2 THEN 20 ELSE IF f3 = 1 THEN 22
                       ELSE IF f3 = 0 THEN 23 ELSE IF f3 = 5 THEN 26 ELSE 25)
        ELSE IF op = R5VM_OPCODE_SW
        THEN IF f3 \notin {0, 1, 2} THEN 0
             ELSE OptImm(IMM_S(inst)) + (IF f3 = 1 THEN 21 ELSE 19)
        ELSE IF op = R5VM_OPCODE_BRANCH
        THEN IF f3 \in {2, 3} THEN 0 ELSE 16
        ELSE IF op = R5VM_OPCODE_JAL THEN (IF rd = 0 THEN 6 ELSE 13)
        ELSE IF op = R5VM_OPCODE_JALR
        THEN IF f3 # 0 THEN 0
             ELSE (IF rd = 0 THEN 0 ELSE 7) + 18 + OptImm(IMM_I(inst))
        ELSE IF op = R5VM_OPCODE_SYSTEM
        THEN IF inst[2] \div 16 = 0 THEN 9 ELSE EpilogSize
        ELSE IF op = R5VM_OPCODE_FENCE THEN 1
        ELSE 0

\* r5jit_step returns false: the instruction has no template (lines 657-841)
NoTemplate(inst, dbg) ==
    LET op == OPCODE(inst)
        f3 == FUNCT3(inst)
    IN  IF op \in {R5VM_OPCODE_R_TYPE, R5VM_OPCODE_I_TYPE, R5VM_OPCODE_AUIPC,
                   R5VM_OPCODE_LUI, R5VM_OPCODE_JAL, R5VM_OPCODE_FENCE}
        THEN FALSE
        ELSE IF op = R5VM_OPCODE_LW THEN dbg /\ f3 \notin {0, 1, 2, 4, 5}
        ELSE IF op = R5VM_OPCODE_SW THEN dbg /\ f3 \notin {0, 1, 2}
        ELSE IF op = R5VM_OPCODE_BRANCH THEN dbg /\ f3 \in {2, 3}
        ELSE IF op = R5VM_OPCODE_JALR THEN dbg /\ f3 # 0
        ELSE IF op = R5VM_OPCODE_SYSTEM
        THEN f3 # 0 \/ inst[2] \div 16 \notin {0, 1}
        ELSE TRUE

\* void emit1(r5jitbuf_t* jit, uint8_t v) on the buffer b, a record of mem
\* (the bytes by index), mem_size, pos and error: with assert compiled in
\* the program is aborted when pos has reached mem_size, st = "aborted"
emit1(b, v, asserts) ==
    IF b.st = "aborted" THEN b
    ELSE IF b.pos < b.mem_size
    THEN [b EXCEPT !.mem = [i \in DOMAIN b.mem \cup {b.pos} |->
                               IF i = b.pos THEN v % 256 ELSE b.mem[i]],
                   !.pos = b.pos + 1]
    ELSE IF asserts THEN [b EXCEPT !.st = "aborted"]
    ELSE [b EXCEPT !.error = TRUE]

\* void emit4(r5jitbuf_t* jit, uint32_t v): the four bytes of v, lowest first
emit4(b, v, asserts) ==
    emit1(emit1(emit1(emit1(b, v[1] % 256, asserts),
                      v[1] \div 256, asserts),
                v[2] % 256, asserts),
          v[2] \div 256, asserts)

\* uint8_t hex(uint8_t c): the value of a hexadecimal digit; -1 stands for
\* the assert(0) that no string literal of the source reaches
hex(c) ==
    IF c \in {"a", "A"} THEN 10 ELSE IF c \in {"b", "B"} THEN 11
    ELSE IF c \in {"c", "C"} THEN 12 ELSE IF c \in {"d", "D"} THEN 13
    ELSE IF c \in {"e", "E"} THEN 14 ELSE IF c \in {"f", "F"} THEN 15
    ELSE IF c = "0" THEN 0 ELSE IF c = "1" THEN 1 ELSE IF c = "2" THEN 2
    ELSE IF c = "3" THEN 3 ELSE IF c = "4" THEN 4 ELSE IF c = "5" THEN 5
    ELSE IF c = "6" THEN 6 ELSE IF c = "7" THEN 7 ELSE IF c = "8" THEN 8
    ELSE IF c = "9" THEN 9 ELSE -1

\* void emit(r5jitbuf_t* jit, const char *string): the string, given as the
\* sequence of its characters, holds two digits for each byte and one
\* character between two bytes
RECURSIVE emit(_, _, _)
emit(b, string, asserts) ==
    LET b1 == emit1(b, hex(string[1]) * 16 + hex(string[2]), asserts)
    IN  IF Len(string) = 2 THEN b1
        ELSE emit(b1, SubSeq(string, 4, Len(string)), asserts)

\* emit1 called n times with the cursor at j.pos (lines 55-63) in a build
\* with NDEBUG: bytes are stored while pos < mem_size, and every call from
\* then on sets the error flag and stores nothing
EmitBytes(j, n, size) ==
    IF j.pos + n > size THEN [j EXCEPT !.pos = size, !.error = TRUE]
    ELSE [j EXCEPT !.pos = j.pos + n]

\* r5jit_emit_epilog behind the loop (line 880) and the return of success;
\* with assert compiled in, emit1 aborts the program when the buffer is full
CompileEnd(j, size, asserts, st) ==
    IF asserts /\ j.pos + EpilogSize > size THEN [j EXCEPT !.st = "overflow"]
    ELSE [EmitBytes(j, EpilogSize, size) EXCEPT !.st = st]

\* the loop of r5jit_compile from pc on (lines 859-879); j is the r5jitbuf_t
\* with the VM being compiled, size the bytes of the code buffer. Line 860
\* aborts with assert compiled in; without it line 861 stores behind the end
\* of the table of code_size entries
RECURSIVE CompileLoop(_, _, _, _, _)
CompileLoop(j, pc, size, dbg, asserts) ==
    LET v == j.vm
    IN  IF ~LtU32(pc, Add32(v.code_offset, v.code_size))
        THEN CompileEnd(j, size, asserts, "compiled")
        ELSE IF ~LtU32(pc, v.code_size)
        THEN IF asserts THEN [j EXCEPT !.st = "assert"]
             ELSE [j EXCEPT !.st = "ub",
                            !.ip_map = [a \in DOMAIN j.ip_map \cup {ToNat(pc)} |->
                                           IF a = ToNat(pc) THEN j.pos
                                           ELSE j.ip_map[a]]]
        ELSE
        LET inst == Fetch([v EXCEPT !.pc = pc])
            v1   == [v EXCEPT !.pc = And32(Add32(pc, <<4, 0>>), v.mem_mask)]
            t    == [off |-> j.pos, inst |-> inst, pc |-> v1.pc]
            j1   == [j EXCEPT !.vm = v1,
                              !.ip_map = [a \in DOMAIN j.ip_map \cup {ToNat(pc)} |->
                                             IF a = ToNat(pc) THEN j.pos
                                             ELSE j.ip_map[a]]]
            fits == j1.pos + TemplateSize(inst) <= size
        IN  IF NoTemplate(inst, dbg)
            THEN CompileEnd([j1 EXCEPT !.error = TRUE], size, asserts, "failed")
            ELSE IF asserts /\ ~fits
            THEN [j1 EXCEPT !.st = "overflow"]
            ELSE CompileLoop([EmitBytes(j1, TemplateSize(inst), size) EXCEPT
                                  !.code = IF fits THEN Append(j1.code, t)
                                           ELSE j1.code],
                             Add32(pc, <<4, 0>>), size, dbg, asserts)

\* bool r5jit_compile(r5vm_t* vm, r5jitbuf_t* jit): st is "compiled" when it
\* returns true, "failed" when it returns false (an instruction has no
\* template), "overflow" when the assert of emit1 stopped the program,
\* "assert" when that of line 860 did, "ub" after a store behind the table
r5jit_compile(v, size, dbg, asserts) ==
    IF asserts /\ PrologSize > size
    THEN [NoJit EXCEPT !.st = "overflow", !.vm = v]
    ELSE CompileLoop(EmitBytes([NoJit EXCEPT !.vm = v], PrologSize, size),
                     v.code_offset, size, dbg, asserts)

\* what running one template did: next is "fall" (the next template),
\* "jump" (through the dispatch table entry of pc to), "ret" (the epilog) or
\* "ub" (a host access outside the sandbox)
Ran(v, next, to, putc) == [vm |-> v, next |-> next, to |-> to, putc |-> putc]

Fall(v) == Ran(v, "fall", 0, -1)

\* shl, shr and sar of the x86: eax shifted by the count in cl (or by an
\* 8-bit immediate), of which the processor uses the low 5 bits
X86Shift(op, eax, count) ==
    LET n == (count % 256) % 32
    IN  IF op = "shl" THEN Shl32(eax, n)
        ELSE IF op = "shr" THEN Shr32(eax, n)
        ELSE Sar32(eax, n)

\* the instruction has one of the shift templates: emit_sll, emit_srl,
\* emit_sra (lines 555-587), emit_slli, emit_srli, emit_srai (lines 219-256)
HasShiftTemplate(inst) ==
    \/ OPCODE(inst) = R5VM_OPCODE_R_TYPE /\ FUNCT3(inst) \in {1, 5}
    \/ /\ OPCODE(inst) = R5VM_OPCODE_I_TYPE
       /\ \/ FUNCT3(inst) = 1 /\ FUNCT7(inst) = 0
          \/ FUNCT3(inst) = 5 /\ FUNCT7(inst) \in {0, 32}

\* the shift templates, rd != 0: ecx is loaded with all of R[rs2] and the
\* shift is by cl; an immediate count is imm & 0x1f, and no shift
\* instruction is emitted when that is 0
RunShift(v, inst) ==
    LET eax == v.regs[RS1(inst)]
        op  == IF FUNCT3(inst) = 1 THEN "shl"
               ELSE IF FUNCT7(inst) = 32 THEN "sar" ELSE "shr"
        imm == IMM_I(inst)[1] % 32
    IN  IF OPCODE(inst) = R5VM_OPCODE_R_TYPE
        THEN Fall(SetR(v, RD(inst), X86Shift(op, eax, v.regs[RS2(inst)][1])))
        ELSE IF imm = 0 THEN Fall(SetR(v, RD(inst), eax))
        ELSE Fall(SetR(v, RD(inst), X86Shift(op, eax, imm)))

\* the templates of the R-type and I-type instructions (lines 125-275 and
\* 526-608): the shift templates, for the others the interpreter's result in
\* R[rd]; nothing for rd == 0
RunAlu(v, inst) ==
    IF RD(inst) = 0 THEN Fall(v)
    ELSE IF HasShiftTemplate(inst) THEN RunShift(v, inst)
    ELSE IF OPCODE(inst) = R5VM_OPCODE_R_TYPE
    THEN Fall(ExecRType(v, inst, FALSE).vm)
    ELSE Fall(ExecIType(v, inst, FALSE).vm)

\* emit_auipc (lines 469-478): the sum is masked when the code is generated
RunAuipc(v, inst, pc) ==
    IF RD(inst) = 0 THEN Fall(v)
    ELSE Fall(SetR(v, RD(inst),
                   And32(Add32(Sub32(pc, <<4, 0>>), IMM_U(inst)), v.mem_mask)))

\* emit_lw, emit_lh, emit_lb, emit_lhu, emit_lbu (lines 355-467): the base
\* address is masked, then one host load reads the bytes that follow it
RunLoad(v, inst) ==
    LET f3   == FUNCT3(inst)
        base == MemIdx(v, Add32(v.regs[RS1(inst)], IMM_I(inst)))
        n    == IF f3 = 2 THEN 4 ELSE IF f3 \in {1, 5} THEN 2 ELSE 1
        b(i) == v.mem[base + i]
        val  == IF f3 = 0 THEN SExt8(b(0))
                ELSE IF f3 = 1 THEN SExt16(b(0) + 256 * b(1))
                ELSE IF f3 = 2 THEN <<b(0) + 256 * b(1), b(2) + 256 * b(3)>>
                ELSE IF f3 = 4 THEN <<b(0), 0>>
                ELSE <<b(0) + 256 * b(1), 0>>
    IN  IF RD(inst) = 0 \/ f3 \notin {0, 1, 2, 4, 5} THEN Fall(v)
        ELSE IF base + n > ToNat(v.mem_size) THEN Ran(v, "ub", 0, -1)
        ELSE Fall(SetR(v, RD(inst), val))

\* emit_sw4, emit_sw2, emit_sw1 (lines 490-524): the base address is masked,
\* then one host store writes the bytes that follow it
RunStore(v, inst) ==
    LET f3   == FUNCT3(inst)
        base == MemIdx(v, Add32(v.regs[RS1(inst)], IMM_S(inst)))
        n    == IF f3 = 2 THEN 4 ELSE IF f3 = 1 THEN 2 ELSE 1
    IN  IF f3 \notin {0, 1, 2} THEN Fall(v)
        ELSE IF base + n > ToNat(v.mem_size) THEN Ran(v, "ub", 0, -1)
        ELSE Fall(StoreBytes(v, U32(base), v.regs[RS2(inst)], n))

\* emit_beq .. emit_bge (lines 277-353): the target is computed when the code
\* is generated; a taken branch jumps through its dispatch table entry
RunBranch(v, inst, pc) ==
    IF FUNCT3(inst) \in {2, 3} \/ ~BranchTaken(v, inst)
    THEN Fall(v)
    ELSE Ran(v, "jump", MemIdx(v, Add32(Sub32(pc, <<4, 0>>), IMM_B(inst))), -1)

\* emit_jal (lines 610-624)
RunJal(v, inst, pc) ==
    Ran(IF RD(inst) = 0 THEN v ELSE SetR(v, RD(inst), pc), "jump",
        MemIdx(v, Add32(Sub32(pc, <<4, 0>>), IMM_J(inst))), -1)

\* emit_jalr (lines 626-640): the sum is shifted left by 2 before it is
\* masked, so the table entry taken is that of pc (sum mod mem_size / 4)
RunJalr(v, inst, pc) ==
    LET v1  == IF RD(inst) = 0 THEN v ELSE SetR(v, RD(inst), pc)
        sum == Add32(v1.regs[RS1(inst)], IMM_I(inst))
        m   == v.mem_mask
        off == And32(Shl32(sum, 2), <<(m[1] \div 2) * 2, m[2]>>)
    IN  IF FUNCT3(inst) # 0 THEN Fall(v)
        ELSE Ran(v1, "jump", ToNat(off) \div 4, -1)

\* emit_ecall (lines 642-650) calling r5vm_handle_ecall (lines 104-109):
\* a byte is written for a7 == 1, and nothing else is done for any a7
RunEcall(v) ==
    Ran(v, "fall", 0, IF v.regs[17] = <<1, 0>> THEN v.regs[10][1] % 256 ELSE -1)

\* the host code of one template; pc is vm->pc of r5jit_step after the fetch
RunTemplate(v, inst, pc) ==
    LET op == OPCODE(inst)
    IN  IF op \in {R5VM_OPCODE_R_TYPE, R5VM_OPCODE_I_TYPE} THEN RunAlu(v, inst)
        ELSE IF op = R5VM_OPCODE_AUIPC THEN RunAuipc(v, inst, pc)
        ELSE IF op = R5VM_OPCODE_LUI
        THEN (IF RD(inst) = 0 THEN Fall(v) ELSE Fall(SetR(v, RD(inst), IMM_U(inst))))
        ELSE IF op = R5VM_OPCODE_LW THEN RunLoad(v, inst)
        ELSE IF op = R5VM_OPCODE_SW THEN RunStore(v, inst)
        ELSE IF op = R5VM_OPCODE_BRANCH THEN RunBranch(v, inst, pc)
        ELSE IF op = R5VM_OPCODE_JAL THEN RunJal(v, inst, pc)
        ELSE IF op = R5VM_OPCODE_JALR THEN RunJalr(v, inst, pc)
        ELSE IF op = R5VM_OPCODE_SYSTEM
        THEN (IF inst[2] \div 16 = 0 THEN RunEcall(v) ELSE Ran(v, "ret", 0, -1))
        ELSE Fall(v)

\* The host stack of the thread that calls the generated code, as the list
\* of what has been pushed, the top last. "caller" is the return address
\* that the call of line 129 pushes, "edi" and "ebx" are the values these
\* two registers have in r5jit_exec.
Push(s, x) == Append(s, x)

Drop(s, n) == SubSeq(s, 1, Len(s) - n)

\* r5jit_emit_prolog (lines 113-117): push edi; push ebx; mov edi, vm
r5jit_emit_prolog(s) == Push(Push(s, "edi"), "ebx")

\* the template without the add esp, 4 behind the call
emit_ecall_nocleanup(s) == Drop(Push(Push(s, "vm"), "eip"), 1)

\* emit_ecall (lines 645-653): push edi; call r5vm_handle_ecall, which
\* returns to the address the call pushed; add esp, 4
emit_ecall(s) == Drop(Drop(Push(Push(s, "vm"), "eip"), 1), 1)

\* r5jit_emit_epilog (lines 119-123): pop ebx; pop edi; ret. popped is what
\* went into ebx, into edi and into the instruction pointer
r5jit_emit_epilog(j) ==
    LET s == j.stack
        n == Len(s)
    IN  IF n < 3 THEN [j EXCEPT !.st = "ub"]
        ELSE [j EXCEPT !.st = "done", !.stack = Drop(s, 3),
                       !.popped = <<s[n], s[n - 1], s[n - 2]>>]

\* the template a jump through dispatch table entry a lands on: 0 when the
\* entry was never written (it holds what malloc left there, or lies past the
\* table), and the place behind the last whole template when the entry points
\* at the final epilog or at a template that the full buffer cut short
Landing(j, a) ==
    IF a \in DOMAIN j.ip_map
    THEN LET ks == {k \in 1..Len(j.code) : j.code[k].off = j.ip_map[a]}
         IN  IF ks = {} THEN Len(j.code) + 1
             ELSE CHOOSE k \in ks : \A h \in ks : k <= h
    ELSE 0

\* the generated code runs one template, or what lies behind the last whole
\* one: the final epilog, or the bytes of a buffer that was full (error)
r5jit_exec(j) ==
    IF j.at > Len(j.code)
    THEN (IF j.error THEN [j EXCEPT !.st = "ub"] ELSE r5jit_emit_epilog(j))
    ELSE
    LET t == j.code[j.at]
        x == RunTemplate(j.vm, t.inst, t.pc)
        o == IF x.putc >= 0 THEN Append(j.out, x.putc) ELSE j.out
        k == Landing(j, x.to)
        s == IF OPCODE(t.inst) = R5VM_OPCODE_SYSTEM /\ t.inst[2] \div 16 = 0
             THEN emit_ecall(j.stack) ELSE j.stack
    IN  IF x.next = "ub" THEN [j EXCEPT !.st = "ub"]
        ELSE IF x.next = "ret" THEN r5jit_emit_epilog([j EXCEPT !.vm = x.vm])
        ELSE IF x.next = "fall"
        THEN [j EXCEPT !.vm = x.vm, !.out = o, !.at = j.at + 1, !.stack = s]
        ELSE IF k = 0 THEN [j EXCEPT !.st = "ub", !.vm = x.vm]
        ELSE [j EXCEPT !.vm = x.vm, !.at = k]

----------------------------------------------------------------------------
(* Guest programs: instruction encodings and the images built from them.   *)

\* a negative immediate as a field of the given width
Imm(n, bits) == IF n < 0 THEN 2^bits + n ELSE n

EncR(f7, rs2, rs1, f3, rd, op) ==
    <<op + rd * 128 + f3 * 4096 + (rs1 % 2) * 32768,
      (rs1 \div 2) + rs2 * 16 + f7 * 512>>

EncI(imm, rs1, f3, rd, op) ==
    EncR(Imm(imm, 12) \div 32, Imm(imm, 12) % 32, rs1, f3, rd, op)

EncS(imm, rs2, rs1, f3) ==
    EncR(Imm(imm, 12) \div 32, rs2, rs1, f3, Imm(imm, 12) % 32, R5VM_OPCODE_SW)

EncB(imm, rs2, rs1, f3) ==
    LET i == Imm(imm, 13)
    IN  EncR((i \div 4096) * 64 + ((i \div 32) % 64), rs2, rs1, f3,
             ((i \div 2) % 16) * 2 + ((i \div 2048) % 2), R5VM_OPCODE_BRANCH)

EncU(imm20, rd, op) ==
    <<op + rd * 128 + (imm20 % 16) * 4096, imm20 \div 16>>

EncJ(imm, rd) ==
    LET i == Imm(imm, 21)
    IN  EncU((i \div 1048576) * 524288 + ((i \div 2) % 1024) * 512
               + ((i \div 2048) % 2) * 256 + ((i \div 4096) % 256),
             rd, R5VM_OPCODE_JAL)

ADDI(rd, rs1, imm) == EncI(imm, rs1, 0, rd, R5VM_OPCODE_I_TYPE)

LUI(rd, imm20) == EncU(imm20, rd, R5VM_OPCODE_LUI)

ECALL == EncI(0, 0, 0, 0, R5VM_OPCODE_SYSTEM)

EBREAK == EncI(1, 0, 0, 0, R5VM_OPCODE_SYSTEM)

\* the bytes of a sequence of instruction words
RECURSIVE Bytes(_)
Bytes(ws) == IF ws = <<>> THEN <<>> ELSE LE32(Head(ws)) \o Bytes(Tail(ws))

\* three instructions that give x1, x2, a0 and a7 their values
Setups ==
    { <<LUI(1, 524288), ADDI(1, 1, -1), ADDI(2, 0, 1)>>,
      <<ADDI(1, 0, -1), ADDI(2, 0, 33), ADDI(17, 0, 1)>>,
      <<ADDI(1, 0, 30), LUI(2, 703710), ADDI(2, 2, 753)>>,
      <<ADDI(1, 0, 8), ADDI(10, 0, 321), ADDI(17, 0, 2)>> }

\* the instruction under test: sources x1 and x2, destination x0 or x3
TestInsts ==
    {EncR(f7, 2, 1, f3, rd, R5VM_OPCODE_R_TYPE) :
        f7 \in {0, 32}, f3 \in 0..7, rd \in {0, 3}}
    \cup {EncR(1, 2, 1, f3, 3, R5VM_OPCODE_R_TYPE) : f3 \in {0, 5}}
    \cup {EncI(imm, 1, f3, rd, R5VM_OPCODE_I_TYPE) :
        imm \in {5, -3, 1055, 95}, f3 \in 0..7, rd \in {0, 3}}
    \cup {EncI(imm, 1, f3, rd, R5VM_OPCODE_LW) :
        imm \in {0, 4, -8}, f3 \in 0..5, rd \in {0, 3}}
    \cup {EncS(imm, 2, 1, f3) : imm \in {0, -2, 4}, f3 \in 0..3}
    \cup {EncB(imm, 2, 1, f3) : imm \in {8, -8}, f3 \in 0..7}
    \cup {EncB(-16, 0, 0, 0)}
    \cup {EncJ(imm, rd) : imm \in {8, -8, 16, 22}, rd \in {0, 3}}
    \cup {EncI(imm, 1, f3, rd, R5VM_OPCODE_JALR) :
        imm \in {5, -4}, f3 \in {0, 1}, rd \in {0, 1, 3}}
    \cup {EncI(24, 0, 0, 0, R5VM_OPCODE_JALR)}
    \cup {EncU(imm20, rd, op) :
        imm20 \in {1, 1048575}, rd \in {0, 3},
        op \in {R5VM_OPCODE_AUIPC, R5VM_OPCODE_LUI}}
    \cup {ECALL, EBREAK, EncI(768, 1, 1, 3, R5VM_OPCODE_SYSTEM),
          EncI(0, 0, 0, 0, R5VM_OPCODE_FENCE), <<127, 0>>, <<65535, 65535>>}

\* set-up, the instruction under test, then ecall, addi x4, x0, 7 and ecall
Programs ==
    {s \o <<t, ECALL, ADDI(4, 0, 7), ECALL>> : s \in Setups, t \in TestInsts}

\* the image of program p: code at load_addr, two bytes of data behind it
ProgFile(p, entry, load_addr, ram_size) ==
    MkFile(R5VM_MAGIC_STR, R5VM_FILE_VERSION, 0,
           [entry       |-> U32(entry),
            load_addr   |-> U32(load_addr),
            ram_size    |-> U32(ram_size),
            code_offset |-> U32(HDR_SIZE),
            code_size   |-> U32(4 * Len(p)),
            data_offset |-> U32(HDR_SIZE + 4 * Len(p)),
            data_size   |-> U32(2),
            bss_size    |-> U32(0)],
           Bytes(p) \o <<170, 187>>, "ok", TRUE)

\* every program entered at its first instruction, a few at their second
ProgFiles ==
    {ProgFile(p, 0, 0, 32) : p \in Programs}
    \cup {ProgFile(s \o <<t, ECALL>>, 4, 0, 32) :
            s \in Setups, t \in {EncS(-2, 2, 1, 2), EncJ(-8, 3)}}

\* images whose header asks for 0x80000001 bytes of RAM: one of .bss only,
\* one with code and data
HugeFiles ==
    {MkFile(R5VM_MAGIC_STR, R5VM_FILE_VERSION, 0,
            [entry       |-> U32(0),
             load_addr   |-> U32(0),
             ram_size    |-> <<1, 2^15>>,
             code_offset |-> U32(HDR_SIZE),
             code_size   |-> U32(0),
             data_offset |-> U32(HDR_SIZE),
             data_size   |-> U32(0),
             bss_size    |-> U32(4)],
            <<>>, "ok", TRUE),
     [ProgFile(<<ADDI(1, 0, 5), ECALL>>, 0, 0, 32)
         EXCEPT !.hdr.ram_size = LE32(<<1, 2^15>>)]}

\* the images run by the interpreter and the builds that run them: the
\* programs on the 32-bit build, the huge images on the 64-bit build (the
\* 32-bit build does not get through r5vm_load with them)
RunInputs ==
    {[file |-> f, build |-> b] :
        f \in ProgFiles,
        b \in {b \in Builds : b.size_bits = 32 /\ b.oob.fault}}
    \cup {[file |-> f, build |-> b] :
            f \in HugeFiles, b \in {b \in Builds : b.size_bits = 64}}

----------------------------------------------------------------------------
(* Interpreter runs: r5vm_load, then r5vm_run and r5vm_reset in any order. *)

\* steps of one r5vm_run call that are followed
MaxSteps == 12

\* calls of r5vm_run that are followed
MaxRuns == 2

Init ==
    /\ \E in \in RunInputs : file = in.file /\ build = in.build
    /\ req = Zero32
    /\ LET r == r5vm_load(file, JunkVM, req, build.size_bits)
       IN  /\ vm = r.vm
           /\ lret = r.ret
           /\ res = r.res
    /\ run = [st |-> "idle", i |-> 0, max_steps |-> 0, calls |-> 0]
    /\ jit = NoJit
    /\ out = <<>>
    /\ errs = <<>>
    /\ last = [op |-> "load"]

\* the embedder calls r5vm_run(vm, max_steps) on a loaded VM
Run ==
    /\ lret.st = "ret" /\ lret.code = 0
    /\ run.st \in {"idle", "returned"}
    /\ run.calls < MaxRuns
    /\ \E max_steps \in {0, 3} :
          run' = [st |-> "running", i |-> 0, max_steps |-> max_steps,
                  calls |-> run.calls + 1]
    /\ last' = [op |-> "run"]
    /\ UNCHANGED <<file, req, vm, lret, res, build, jit, out, errs>>

\* the loop runs one more iteration after max_steps iterations
LoopContinues_offbyone(i, max_steps) == i <= max_steps \/ max_steps = 0

\* line 269: i < max_steps || max_steps == 0
LoopContinues(i, max_steps) == i < max_steps \/ max_steps = 0

\* the arguments of the call of r5vm_error made by r5vm_step on v with the
\* outcome x, none or one: the pc check hands over vm->pc and 0 (line 65),
\* every case of the switch vm->pc-4 and inst, after line 69 has advanced
\* and masked vm->pc
ErrorCalls(v, x) ==
    IF x.err = "none" THEN <<>>
    ELSE IF x.err = "PC out of bounds"
    THEN <<[msg |-> x.err, pc |-> v.pc, instr |-> Zero32]>>
    ELSE <<[msg |-> x.err, pc |-> Sub32(NextPc(v), <<4, 0>>),
            instr |-> Fetch(v)]>>

\* one iteration of the loop of r5vm_run: r5vm_step, then break or i++; the
\* process ends when an access outside the sandbox faults. last.nth counts
\* the calls of r5vm_step since r5vm_run was entered
Step ==
    /\ run.st = "running"
    /\ LoopContinues(run.i, run.max_steps)
    /\ run.i < MaxSteps
    /\ LET x == r5vm_step(vm, build.debug)
           faults == build.oob.fault /\ ~(x.acc \subseteq DOMAIN vm.mem)
       IN  /\ vm' = IF faults THEN vm ELSE x.vm
           /\ run' = IF faults THEN [run EXCEPT !.st = "fault"]
                     ELSE IF x.retcode THEN [run EXCEPT !.i = run.i + 1]
                     ELSE [run EXCEPT !.st = "returned"]
           /\ out' = IF ~faults /\ x.putc >= 0 THEN Append(out, x.putc) ELSE out
           /\ errs' = IF ~faults /\ x.err # "none" THEN Append(errs, x.err)
                      ELSE errs
           /\ last' = [op |-> "step", pc |-> vm.pc, inst |-> Fetch(vm),
                       acc |-> x.acc, retcode |-> x.retcode, before |-> vm,
                       nth |-> IF last.op = "step" THEN last.nth + 1 ELSE 1,
                       outlen |-> Len(out),
                       calls |-> IF faults THEN <<>> ELSE ErrorCalls(vm, x)]
    /\ UNCHANGED <<file, req, lret, res, build, jit>>

\* the loop of r5vm_run ends because i reached max_steps
RunReturn ==
    /\ run.st = "running"
    /\ ~LoopContinues(run.i, run.max_steps)
    /\ run' = [run EXCEPT !.st = "returned"]
    /\ last' = [op |-> "return"]
    /\ UNCHANGED <<file, req, vm, lret, res, build, jit, out, errs>>

\* the embedder calls r5vm_reset(vm) between two runs
Reset ==
    /\ run.st = "returned"
    /\ vm' = r5vm_reset(vm)
    /\ run' = [run EXCEPT !.st = "idle"]
    /\ last' = [op |-> "reset", before |-> vm]
    /\ UNCHANGED <<file, req, lret, res, build, jit, out, errs>>

Next == Run \/ Step \/ RunReturn \/ Reset

Spec == Init /\ [][Next]_vars

----------------------------------------------------------------------------
(* Runs of r5vm_run under a step limit: a few programs, every limit up to  *)
(* their length, and the loop of r5vm_run kept going (the host executes    *)
(* the next iteration or the return as long as the process lives).         *)

\* programs that stop at their 4th, 5th or 7th step, or loop for ever
LimitPrograms ==
    {s \o <<t, ECALL, ADDI(4, 0, 7), ECALL>> :
        s \in Setups, t \in {ADDI(3, 1, 5), EBREAK, EncJ(-8, 3), <<127, 0>>}}

\* the max_steps arguments that are tried; 0 is "no limit"
StepLimits == {0, 1, 4, 5, 7}

LimitInputs ==
    {[file |-> ProgFile(p, 0, 0, 32), build |-> b] :
        p \in LimitPrograms,
        b \in {b \in Builds : b.size_bits = 32 /\ b.oob.fault}}
    \cup {[file |-> f, build |-> b] :
            f \in HugeFiles, b \in {b \in Builds : b.size_bits = 64}}

InitLimit ==
    /\ \E in \in LimitInputs : file = in.file /\ build = in.build
    /\ req = Zero32
    /\ LET r == r5vm_load(file, JunkVM, req, build.size_bits)
       IN  /\ vm = r.vm
           /\ lret = r.ret
           /\ res = r.res
    /\ run = [st |-> "idle", i |-> 0, max_steps |-> 0, calls |-> 0]
    /\ jit = NoJit
    /\ out = <<>>
    /\ errs = <<>>
    /\ last = [op |-> "load"]

\* the embedder calls r5vm_run(vm, max_steps) with one of the limits
RunLimit ==
    /\ lret.st = "ret" /\ lret.code = 0
    /\ run.st \in {"idle", "returned"}
    /\ run.calls < MaxRuns
    /\ \E max_steps \in StepLimits :
          run' = [st |-> "running", i |-> 0, max_steps |-> max_steps,
                  calls |-> run.calls + 1]
    /\ last' = [op |-> "run"]
    /\ UNCHANGED <<file, req, vm, lret, res, build, jit, out, errs>>

NextLimit == RunLimit \/ Step \/ RunReturn

\* One trip round the loop of r5vm_run (lines 269-273), seen from the call's
\* own record: one more step is counted, or the call is over.  While a call
\* is running this is what Step and RunReturn do and what nothing else does,
\* and it is possible exactly when one of the two is.
LoopTurn ==
    /\ run.st = "running"
    /\ LoopContinues(run.i, run.max_steps) => run.i < MaxSteps
    /\ run' \in {[run EXCEPT !.i = run.i + 1],
                 [run EXCEPT !.st = "returned"],
                 [run EXCEPT !.st = "fault"]}

\* the host keeps executing the loop of a running call
SpecLimit == InitLimit /\ [][NextLimit]_vars /\ WF_run(LoopTurn)

----------------------------------------------------------------------------
(* Both engines on one image, as main runs them: r5vm_load and              *)
(* r5vm_run(&vm, 0), then r5vm_load into a second record and r5jit_x86.     *)

\* programs that end in ebreak, and programs that call ecall with a7 == 0
\* before more instructions
EqPrograms ==
    {s \o <<t, EBREAK>> : s \in Setups, t \in TestInsts}
    \cup {s \o <<ECALL, ADDI(4, 0, 7), EBREAK>> : s \in Setups}
    \cup {<<ADDI(1, 0, 20), EncJ(8, 3), ADDI(4, 0, 9), EncB(8, 0, 0, 0),
            ADDI(5, 0, 1), EncI(4, 1, 0, 6, R5VM_OPCODE_JALR), EBREAK,
            ADDI(7, 0, 3), EBREAK>>}

\* n times addi x0, x0, 0
RECURSIVE Nops(_)
Nops(n) == IF n = 0 THEN <<>> ELSE <<ADDI(0, 0, 0)>> \o Nops(n - 1)

\* programs that fill a sandbox of 64 bytes: a jump back by 4 from address 0
\* to the last word, where a jal or jalr with a link register jumps on to
\* the ebreak at 4
WrapPrograms ==
    {<<EncJ(-4, 0), EBREAK>> \o Nops(13) \o <<t>> :
        t \in {EncJ(8, 3), EncI(4, 0, 0, 3, R5VM_OPCODE_JALR)}}

\* the image of program p with nothing but code in it
CodeFile(p, ram_size) ==
    MkFile(R5VM_MAGIC_STR, R5VM_FILE_VERSION, 0,
           [entry       |-> U32(0),
            load_addr   |-> U32(0),
            ram_size    |-> U32(ram_size),
            code_offset |-> U32(HDR_SIZE),
            code_size   |-> U32(4 * Len(p)),
            data_offset |-> U32(HDR_SIZE + 4 * Len(p)),
            data_size   |-> U32(0),
            bss_size    |-> U32(0)],
           Bytes(p), "ok", TRUE)

EqFiles ==
    {ProgFile(p, 0, 0, 128) : p \in EqPrograms}
    \cup {CodeFile(p, 64) : p \in WrapPrograms}

InitEq ==
    /\ file \in EqFiles
    /\ req = Zero32
    /\ build \in JitBuilds
    /\ LET r == r5vm_load(file, JunkVM, req, build.size_bits)
       IN  /\ vm = r.vm
           /\ lret = r.ret
           /\ res = r.res
    /\ run = [st |-> "running", i |-> 0, max_steps |-> 0, calls |-> 1]
    /\ jit = NoJit
    /\ out = <<>>
    /\ errs = <<>>
    /\ last = [op |-> "run"]

\* main loads the image a second time, into vmjit
JitLoad ==
    /\ run.st = "returned"
    /\ jit.st = "idle"
    /\ LET r == r5vm_load(file, JunkVM, req, build.size_bits)
       IN  jit' = [jit EXCEPT !.st = IF r.ret.code = 0 THEN "loaded" ELSE "noload",
                              !.vm = r.vm]
    /\ last' = [op |-> "jitload"]
    /\ UNCHANGED <<file, req, vm, lret, res, build, run, out, errs>>

\* r5jit_x86 up to the call of the generated code and its prolog: the code
\* buffer has vm->mem_size bytes
JitCompile ==
    /\ jit.st = "loaded"
    /\ LET j == r5jit_compile(jit.vm, ToNat(jit.vm.mem_size), build.debug,
                              build.asserts)
       IN  jit' = IF j.st = "compiled"
                  THEN [j EXCEPT !.st = "exec", !.at = 1,
                                 !.stack = r5jit_emit_prolog(<<"caller">>)]
                  ELSE j
    /\ last' = [op |-> "compile"]
    /\ UNCHANGED <<file, req, vm, lret, res, build, run, out, errs>>

\* the generated code runs one template
JitExec ==
    /\ jit.st = "exec"
    /\ jit' = r5jit_exec(jit)
    /\ last' = [op |-> "exec", before |-> jit]
    /\ UNCHANGED <<file, req, vm, lret, res, build, run, out, errs>>

NextEq == Step \/ JitLoad \/ JitCompile \/ JitExec

SpecEq == InitEq /\ [][NextEq]_vars

----------------------------------------------------------------------------
(* r5jit_x86 alone, called with a freshly loaded image: programs that the   *)
(* compiler refuses, that fill the code buffer, that are loaded above       *)
(* address 0, and that jump to places outside their code.                   *)

\* a word with an opcode that r5jit_step does not know
BADOP == U32(0)

JitPrograms ==
    {<<ADDI(1, 0, 20), EncJ(8, 3), ADDI(4, 0, 9), EncB(8, 0, 0, 0),
       ADDI(5, 0, 1), EncI(4, 1, 0, 6, R5VM_OPCODE_JALR), EBREAK,
       ADDI(7, 0, 3), EBREAK>>,
     <<ADDI(1, 0, 20), ADDI(2, 0, 1), ADDI(3, 0, 1), EBREAK>>,
     <<ADDI(1, 0, 20), ADDI(2, 1, 1), ADDI(3, 1, 2), ADDI(4, 1, 3),
       ADDI(5, 1, 4), EBREAK>>,
     <<BADOP, EBREAK>>,
     <<ADDI(1, 0, 20), BADOP, EBREAK>>,
     <<ADDI(1, 0, 20), EncB(8, 0, 0, 2), EBREAK>>,
     <<ADDI(1, 0, 20), EncI(2, 0, 0, 0, R5VM_OPCODE_SYSTEM), EBREAK>>,
     <<EncB(8, 0, 0, 0), EBREAK>>,
     <<EncB(-8, 0, 0, 0), EBREAK>>,
     <<EncB(6, 0, 0, 0), EBREAK, EBREAK>>,
     <<EncJ(8, 0), EBREAK>>,
     <<EncJ(-4, 1), EBREAK>>,
     <<EncI(12, 0, 0, 0, R5VM_OPCODE_JALR), EBREAK, ADDI(5, 0, 1), EBREAK>>,
     <<EncI(5, 0, 0, 1, R5VM_OPCODE_JALR), EBREAK, EBREAK>>,
     <<ADDI(1, 0, 5), EncI(3, 1, 0, 0, R5VM_OPCODE_JALR), EBREAK>>,
     <<ADDI(17, 0, 1), ADDI(10, 0, 65), ECALL, ECALL>>}
    \cup {s \o <<t, ADDI(4, 0, 7), EBREAK>> :
            s \in Setups, t \in {EncB(8, 2, 1, f3) : f3 \in {0, 1, 4, 6}}}

\* the images: sandboxes of 32 and of 128 bytes, the small programs also
\* loaded at address 4, one program entered at its second and at its third
\* instruction, and the sandboxes of 64 bytes that are full of code
JitFiles ==
    {ProgFile(p, 0, 0, ram) : p \in JitPrograms, ram \in {32, 128}}
    \cup {ProgFile(p, 4, 4, 32) : p \in {q \in JitPrograms : Len(q) <= 3}}
    \cup {ProgFile(<<ADDI(5, 0, 1), ADDI(6, 0, 2), EBREAK>>, e, 0, 64) :
            e \in {4, 8}}
    \cup {CodeFile(p, 64) : p \in WrapPrograms}

InitJit ==
    /\ file \in JitFiles
    /\ req = Zero32
    /\ build \in JitBuilds
    /\ LET r == r5vm_load(file, JunkVM, req, build.size_bits)
       IN  /\ vm = r.vm
           /\ lret = r.ret
           /\ res = r.res
           /\ jit = [NoJit EXCEPT
                        !.st = IF r.ret.code = 0 THEN "loaded" ELSE "noload",
                        !.vm = r.vm]
    /\ run = [st |-> "idle", i |-> 0, max_steps |-> 0, calls |-> 0]
    /\ out = <<>>
    /\ errs = <<>>
    /\ last = [op |-> "jitload"]

NextJit == JitCompile \/ JitExec

SpecJit == InitJit /\ [][NextJit]_vars

----------------------------------------------------------------------------
(* The emit functions alone, called in any order on the buffer that         *)
(* r5jit_x86 sets up (lines 902-906).                                       *)

\* the sizes of the buffer
BufSizes == {1, 3, 5}

\* the values written: bytes, words and string literals of the templates
EmitBytes1 == {87, 256 + 91}

EmitWords == {<<4660, 22136>>, <<65535, 65535>>}

EmitStrings ==
    {<<"9", "0">>, <<"8", "B", " ", "4", "7">>, <<"c", "1", " ", "e", "0", " ", "0", "2">>}

InitEmit ==
    /\ file = MkFile(R5VM_MAGIC_STR, R5VM_FILE_VERSION, 0,
                     [entry |-> Zero32, load_addr |-> Zero32,
                      ram_size |-> Zero32, code_offset |-> Zero32,
                      code_size |-> Zero32, data_offset |-> Zero32,
                      data_size |-> Zero32, bss_size |-> Zero32],
                     <<>>, "ok", TRUE)
    /\ req = Zero32
    /\ vm = ZeroVM
    /\ lret = [st |-> "none", code |-> 0]
    /\ res = [file_open |-> FALSE, mem_live |-> FALSE]
    /\ build \in {b \in JitBuilds : ~b.debug}
    /\ run = [st |-> "idle", i |-> 0, max_steps |-> 0, calls |-> 0]
    /\ \E n \in BufSizes :
          jit = [st |-> "emit", mem |-> [i \in 0..(n - 1) |-> 0],
                 mem_size |-> n, pos |-> 0, error |-> FALSE]
    /\ out = <<>>
    /\ errs = <<>>
    /\ last = [op |-> "buffer"]

\* what no emit function touches
EmitFrame == UNCHANGED <<file, req, vm, lret, res, build, run, out, errs>>

Emit1 ==
    /\ jit.st = "emit"
    /\ \E v \in EmitBytes1 : jit' = emit1(jit, v, build.asserts)
    /\ last' = [op |-> "emit", tries |-> 1, before |-> jit]
    /\ EmitFrame

Emit4 ==
    /\ jit.st = "emit"
    /\ \E v \in EmitWords : jit' = emit4(jit, v, build.asserts)
    /\ last' = [op |-> "emit", tries |-> 4, before |-> jit]
    /\ EmitFrame

Emit ==
    /\ jit.st = "emit"
    /\ \E string \in EmitStrings :
          /\ jit' = emit(jit, string, build.asserts)
          /\ last' = [op |-> "emit", tries |-> (Len(string) + 1) \div 3,
                      before |-> jit]
    /\ EmitFrame

NextEmit == Emit1 \/ Emit4 \/ Emit

SpecEmit == InitEmit /\ [][NextEmit]_vars

----------------------------------------------------------------------------
(* The first version of the VM, src/r5vm.c and src/r5vm.h, which the test   *)
(* runner src/tests/test_runner_advanced.c uses: r5vm_init binds a record   *)
(* of regs, pc, mem, mem_size and mem_mask to a buffer of the caller. A     *)
(* pointer is a number, 0 for NULL.                                         *)

\* memset(vm, 0, sizeof(r5vm_t)) on the record of the first version
ZeroVM0 ==
    [regs |-> NoRegs, pc |-> Zero32, mem |-> 0,
     mem_size |-> Zero32, mem_mask |-> Zero32]

\* #define IS_POWER_OF_TWO(n)  ((n) != 0 && ((n) & ((n) - 1)) == 0)
IS_POWER_OF_TWO_even(n) == n[1] % 2 = 0

IS_POWER_OF_TWO(n) == n # Zero32 /\ And32(n, Sub32(n, <<1, 0>>)) = Zero32

\* bool r5vm_init(r5vm_t* vm, uint8_t* mem, uint32_t mem_size): vmp is the
\* pointer vm, v the record it points to when it is not NULL
r5vm_init(vmp, v, mem, mem_size) ==
    LET v0 == IF vmp # 0 THEN ZeroVM0 ELSE v
    IN  IF vmp = 0 \/ mem_size = Zero32 \/ mem = 0 \/ ~IS_POWER_OF_TWO(mem_size)
        THEN [ret |-> FALSE, vm |-> v0]
        ELSE [ret |-> TRUE,
              vm  |-> [v0 EXCEPT !.mem = mem,
                                 !.mem_size = mem_size,
                                 !.mem_mask = Sub32(mem_size, <<1, 0>>)]]

\* records as the caller's stack leaves them
JunkVMs0 ==
    {[regs |-> [i \in 0..31 |-> <<i, 57005>>], pc |-> <<4660, 22136>>,
      mem |-> 3, mem_size |-> <<7, 0>>, mem_mask |-> <<65535, 0>>],
     [regs |-> [i \in 0..31 |-> <<1, 0>>], pc |-> <<8, 0>>,
      mem |-> 1, mem_size |-> <<64, 0>>, mem_mask |-> <<63, 0>>]}

\* the sizes handed to r5vm_init
InitSizes ==
    {U32(n) : n \in {0, 1, 2, 3, 4, 6, 64, 96, 65535}}
    \cup {<<0, 1>>, <<1, 1>>, <<0, 3>>, <<0, 2^15>>, <<0, 2^15 + 2^14>>,
          <<1, 2^15>>, Max32}

\* the arguments of the call are in last: the pointers vm and mem, and
\* mem_size
InitInit ==
    /\ file = MkFile(R5VM_MAGIC_STR, R5VM_FILE_VERSION, 0,
                     [entry |-> Zero32, load_addr |-> Zero32,
                      ram_size |-> Zero32, code_offset |-> Zero32,
                      code_size |-> Zero32, data_offset |-> Zero32,
                      data_size |-> Zero32, bss_size |-> Zero32],
                     <<>>, "ok", TRUE)
    /\ req = Zero32
    /\ vm \in JunkVMs0
    /\ lret = [st |-> "none", code |-> 0]
    /\ res = [file_open |-> FALSE, mem_live |-> FALSE]
    /\ build \in {b \in Builds : ~b.debug /\ b.size_bits = 32 /\ b.oob.fault}
    /\ run = [st |-> "idle", i |-> 0, max_steps |-> 0, calls |-> 0]
    /\ jit = NoJit
    /\ out = <<>>
    /\ errs = <<>>
    /\ \E vmp \in {0, 1}, mem \in {0, 1, 2}, n \in InitSizes :
          last = [op |-> "args", vmp |-> vmp, mem |-> mem, mem_size |-> n]

\* the caller calls r5vm_init with its arguments
InitCall ==
    /\ last.op = "args"
    /\ LET r == r5vm_init(last.vmp, vm, last.mem, last.mem_size)
       IN  /\ vm' = r.vm
           /\ last' = [op |-> "init", vmp |-> last.vmp, mem |-> last.mem,
                       mem_size |-> last.mem_size, ret |-> r.ret,
                       before |-> vm]
    /\ UNCHANGED <<file, req, lret, res, build, run, jit, out, errs>>

NextInit == InitCall

SpecInit == InitInit /\ [][NextInit]_vars

----------------------------------------------------------------------------
(* Properties of the interpreter.                                          *)

\* r5vm_load returned 0
LoadOK == lret.st = "ret" /\ lret.code = 0

\* r5vm_load returned a failure code
LoadFailed == lret.st = "ret" /\ lret.code # 0

\* the header as the loader decodes it
Hdr == DecodeHeader(file.hdr)

\* C2: x0 of a loaded VM reads 0 at every instruction boundary: after the
\* load, after a reset, and after every step, whether the step wrote rd = x0,
\* stopped the run or reported a fault.
C2_X0IsZero == LoadOK => vm.regs[0] = Zero32

\* C2 happens: jal x0 wrote the return address to x0 inside the step
C2_Witness ==
    /\ last.op = "step"
    /\ OPCODE(last.inst) = R5VM_OPCODE_JAL
    /\ RD(last.inst) = 0
    /\ last.before.pc # vm.mem_mask
    /\ vm.regs[3] = Zero32

\* C3: in a loaded VM pc is below mem_size at every instruction boundary,
\* and every byte index a step fetched, loaded or stored at lies in
\* [0, mem_size).
C3_InsideSandbox ==
    LoadOK =>
        /\ LtU32(vm.pc, vm.mem_size)
        /\ last.op = "step" =>
               \A i \in last.acc : i >= 0 /\ i < ToNat(vm.mem_size)

----------------------------------------------------------------------------
(* Properties of the two engines together.                                 *)

\* C1: when the interpreter run and the JIT run of the same image both
\* end, the two VM records hold the same x0..x31 and the same sandbox bytes.
C1_EnginesAgree ==
    (run.st = "returned" /\ jit.st = "done") =>
        /\ \A i \in 0..31 : vm.regs[i] = jit.vm.regs[i]
        /\ vm.mem = jit.vm.mem

----------------------------------------------------------------------------
(* Properties of the loader.                                               *)

\* C5: after a successful r5vm_load, whatever 32-bit ram_size and requested
\* size were given, mem_size is a nonzero power of two, at least ram_size and
\* at least the requested size, and mem_mask is mem_size - 1.
C5_MemSizePow2 ==
    LoadOK =>
        /\ vm.mem_size # Zero32
        /\ IsPow2(vm.mem_size)
        /\ LeU32(Hdr.ram_size, vm.mem_size)
        /\ LeU32(req, vm.mem_size)
        /\ Add32(vm.mem_mask, <<1, 0>>) = vm.mem_size

\* C6: the sandbox of a loaded VM is never smaller than 64 bytes.
C6_MinSandbox64 ==
    LoadOK => ~LtU32(vm.mem_size, <<64, 0>>)

\* C7: r5vm_load ends by returning a non-zero code whenever the header has a
\* wrong magic, a wrong version, flag bit 0 set, or
\* load_addr + code_size + data_size + bss_size > ram_size, the sum taken as
\* a natural number (no 32-bit wrap).
C7_BadHeaderFails ==
    LET h     == Hdr
        lo    == h.load_addr[1] + h.code_size[1] + h.data_size[1] + h.bss_size[1]
        hi    == h.load_addr[2] + h.code_size[2] + h.data_size[2] + h.bss_size[2]
                    + (lo \div B16)
        toobig == hi > h.ram_size[2]
                    \/ (hi = h.ram_size[2] /\ lo % B16 > h.ram_size[1])
        bad   == \/ h.magic_str # <<114, 53, 118, 109>>
                 \/ h.version # R5VM_FILE_VERSION
                 \/ h.flags % 2 = 1
                 \/ toobig
    IN  (file.exists /\ file.io = "ok" /\ lret.st # "none" /\ bad) => LoadFailed

\* C8: when r5vm_load returns a failure code, the caller's VM record is what
\* it was before the call and no sandbox allocated by the call is left
\* allocated.
C8_FailureLeavesNothing ==
    LoadFailed => (vm = last.before /\ ~res.mem_live)

\* C8 happens: a failure after the sandbox was allocated, on a VM record that
\* held data
C8_Witness ==
    /\ LoadFailed
    /\ lret.code \in {-6, -7}
    /\ last.sized
    /\ last.before = JunkVM

\* C9: after a successful load the sandbox holds the file's code blob at
\* load_addr and the data blob right after it, the bytes of the .bss region
\* are sandbox bytes that are zero, and every other sandbox byte is zero.
C9_SandboxContents ==
    LoadOK =>
        LET h  == Hdr
            la == h.load_addr[1]
            nc == h.code_size[1]
            nd == h.data_size[1]
            nb == h.bss_size[1]
            holds(i, b) == i \in DOMAIN vm.mem /\ vm.mem[i] = b
        IN  /\ \A k \in 0..(nc - 1) :
                  holds(la + k,
                        file.payload[(h.code_offset[1] - HDR_SIZE) + k + 1])
            /\ \A k \in 0..(nd - 1) :
                  holds(la + nc + k,
                        file.payload[(h.data_offset[1] - HDR_SIZE) + k + 1])
            /\ \A k \in 0..(nb - 1) : holds(ToNat(vm.bss_offset) + k, 0)
            /\ \A i \in DOMAIN vm.mem :
                  (i < la \/ i >= la + nc + nd) => vm.mem[i] = 0

\* C10: after a successful load code_offset is load_addr, .data follows
\* .code, .bss follows .data, and .bss ends inside the sandbox.
C10_SectionLayout ==
    LoadOK =>
        /\ vm.code_offset = Hdr.load_addr
        /\ vm.data_offset = Add32(vm.code_offset, vm.code_size)
        /\ vm.bss_offset = Add32(vm.data_offset, vm.data_size)
        /\ ~LtU64(U64(vm.mem_size), Add64(U64(vm.bss_offset), U64(vm.bss_size)))

\* C11: after a successful load entry is header.entry & mem_mask and lies
\* in the code region [code_offset, code_offset + code_size).
C11_EntryInCode ==
    LoadOK =>
        /\ vm.entry = And32(Hdr.entry, vm.mem_mask)
        /\ ~LtU32(vm.entry, vm.code_offset)
        /\ LtU64(U64(vm.entry), Add64(U64(vm.code_offset), U64(vm.code_size)))

----------------------------------------------------------------------------
(* Properties of r5vm_run.                                                 *)

\* what holds of the counter i and of the number of r5vm_step calls while
\* r5vm_run(vm, max_steps) runs and when it has returned i
RunAccounts ==
    /\ (run.st = "running" /\ run.max_steps > 0) =>
           /\ run.i <= run.max_steps
           /\ last.op = "step" => last.nth <= run.max_steps
    /\ (run.st = "returned" /\ last.op = "step") =>
           /\ ~last.retcode
           /\ run.i = last.nth - 1
           /\ run.max_steps > 0 => last.nth <= run.max_steps
    /\ (run.st = "returned" /\ last.op = "return") =>
           /\ run.max_steps > 0
           /\ run.i = run.max_steps
    /\ (run.st = "returned" /\ run.max_steps = 0) => last.op = "step"

\* C12: r5vm_run with max_steps > 0 ends; it calls r5vm_step at most
\* max_steps times and returns at most max_steps: max_steps when no step
\* returned stop, k - 1 when the k-th step was the first to return stop.
\* With max_steps == 0 it returns only after a step that returned stop.
C12_RunBounded ==
    /\ [](RunAccounts = TRUE)
    /\ []((run.st = "running" /\ run.max_steps > 0) => <>(run.st # "running"))

\* C12 happens: with a limit of 7 the 5th step returned stop and
\* r5vm_run returned 4
C12_Witness ==
    /\ run.st = "returned"
    /\ run.max_steps = 7
    /\ last.op = "step"
    /\ last.nth = 5
    /\ run.i = 4

----------------------------------------------------------------------------
(* Properties of the SYSTEM instructions and of the environment calls.     *)

\* the last thing that happened is an interpreter step that got to the
\* decode switch: no host fault, and not stopped by the pc check of the
\* R5VM_DEBUG build (lines 63-68)
DecodedStep ==
    /\ LoadOK
    /\ last.op = "step"
    /\ run.st # "fault"
    /\ ~(build.debug /\ LtU32(Sub32(last.before.mem_size, <<4, 0>>),
                              Add32(last.before.pc, <<4, 0>>)))

\* the last thing that happened is an interpreter step that decoded a
\* SYSTEM instruction
SystemStep ==
    /\ DecodedStep
    /\ OPCODE(last.inst) = R5VM_OPCODE_SYSTEM

\* (inst >> 20) & 0xFFF
Imm12(inst) == inst[2] \div 16

\* C13: in the interpreter EBREAK (funct3 == 0, imm12 == 1) makes the step
\* return stop whatever a7 is, and a SYSTEM instruction with funct3 != 0 or
\* imm12 not in {0, 1} is a fault (reported, and the step returns stop);
\* only funct3 == 0 and imm12 == 0 is an ECALL that looks at a7.
C13_SystemDecode ==
    SystemStep =>
        LET f3  == FUNCT3(last.inst)
            imm == Imm12(last.inst)
        IN  /\ (f3 = 0 /\ imm = 1) => ~last.retcode
            /\ (f3 # 0 \/ imm \notin {0, 1}) =>
                   /\ ~last.retcode
                   /\ errs # <<>>

\* the last thing that happened is an interpreter step that executed ECALL
EcallStep ==
    /\ SystemStep
    /\ FUNCT3(last.inst) = 0
    /\ Imm12(last.inst) = 0

\* the last thing that happened is the generated code running the template
\* of an ECALL
EcallExec ==
    /\ last.op = "exec"
    /\ last.before.at <= Len(last.before.code)
    /\ LET inst == last.before.code[last.before.at].inst
       IN  /\ OPCODE(inst) = R5VM_OPCODE_SYSTEM
           /\ FUNCT3(inst) = 0
           /\ Imm12(inst) = 0

\* C14: ECALL with a7 == 0 halts under both engines: the interpreter's step
\* returns stop, and the generated code returns from its entry function
\* instead of running the template of a later guest instruction.
C14_EcallHalts ==
    /\ (EcallStep /\ last.before.regs[17] = Zero32) =>
           /\ ~last.retcode
           /\ run.st = "returned"
    /\ (EcallExec /\ last.before.vm.regs[17] = Zero32) => jit.st = "done"

\* the interpreter's half of C14
C14_InterpreterHalts ==
    (EcallStep /\ last.before.regs[17] = Zero32) =>
        /\ ~last.retcode
        /\ run.st = "returned"

\* C15: ECALL with a7 == 1 appends exactly one byte, a0 & 0xFF, to the
\* host's output and execution goes on with the next instruction; no ECALL
\* changes a general register or a sandbox byte; and when both engines have
\* run the image, the bytes written are the same sequence under both.
C15_WriteByte ==
    /\ EcallStep =>
           /\ vm.regs = last.before.regs
           /\ vm.mem = last.before.mem
           /\ last.before.regs[17] = <<1, 0>> =>
                  /\ last.retcode
                  /\ vm.pc = NextPc(last.before)
                  /\ Len(out) = last.outlen + 1
                  /\ out[Len(out)] = last.before.regs[10][1] % 256
    /\ EcallExec =>
           /\ jit.vm.regs = last.before.vm.regs
           /\ jit.vm.mem = last.before.vm.mem
           /\ last.before.vm.regs[17] = <<1, 0>> =>
                  /\ jit.st = "exec"
                  /\ jit.at = last.before.at + 1
                  /\ jit.out = Append(last.before.out,
                                      last.before.vm.regs[10][1] % 256)
    /\ (run.st = "returned" /\ jit.st = "done") => out = jit.out

\* what each engine does at one ECALL, without the comparison of the runs
C15_OneEcall ==
    /\ EcallStep =>
           /\ vm.regs = last.before.regs
           /\ vm.mem = last.before.mem
           /\ last.before.regs[17] = <<1, 0>> =>
                  /\ last.retcode
                  /\ vm.pc = NextPc(last.before)
                  /\ Len(out) = last.outlen + 1
                  /\ out[Len(out)] = last.before.regs[10][1] % 256
    /\ EcallExec =>
           /\ jit.vm.regs = last.before.vm.regs
           /\ jit.vm.mem = last.before.vm.mem
           /\ last.before.vm.regs[17] = <<1, 0>> =>
                  /\ jit.st = "exec"
                  /\ jit.at = last.before.at + 1
                  /\ jit.out = Append(last.before.out,
                                      last.before.vm.regs[10][1] % 256)

\* C16: ECALL with a7 other than 0 and 1 is a fault under both engines: it
\* is reported through the error sink and execution stops (the
\* interpreter's step returns stop, the generated code does not go on with
\* the next guest instruction).
C16_UnknownEcallFaults ==
    /\ (EcallStep /\ last.before.regs[17] \notin {Zero32, <<1, 0>>}) =>
           /\ ~last.retcode
           /\ errs # <<>>
    /\ (EcallExec /\ last.before.vm.regs[17] \notin {Zero32, <<1, 0>>}) =>
           jit.st = "done"

\* the part of C16 that the interpreter does: its step returns stop
C16_InterpreterStops ==
    (EcallStep /\ last.before.regs[17] \notin {Zero32, <<1, 0>>}) =>
        /\ ~last.retcode
        /\ run.st = "returned"

----------------------------------------------------------------------------
(* Properties of the jumps and of AUIPC.                                   *)

\* the low two bits of w are clear
Aligned4(w) == w[1] % 4 = 0

\* the operand rs1 of the instruction of the last interpreter step: the
\* value of the register when the step began
Rs1Before == last.before.regs[RS1(last.inst)]

\* the last interpreter step executed a JALR (funct3 == 0)
JalrStep ==
    /\ DecodedStep
    /\ OPCODE(last.inst) = R5VM_OPCODE_JALR
    /\ FUNCT3(last.inst) = 0

\* the jump of the last interpreter step, if it made one, was asked to go
\* to a multiple of 4
TargetAligned ==
    LET op == OPCODE(last.inst)
        at == last.before.pc
    IN  /\ op = R5VM_OPCODE_JAL => Aligned4(Add32(at, IMM_J(last.inst)))
        /\ (op = R5VM_OPCODE_BRANCH /\ BranchTaken(last.before, last.inst)) =>
               Aligned4(Add32(at, IMM_B(last.inst)))
        /\ (op = R5VM_OPCODE_JALR /\ FUNCT3(last.inst) = 0) =>
               Aligned4(Add32(Rs1Before, IMM_I(last.inst)))

\* C17: after an interpreter JALR step pc is ((rs1 + imm_i) & ~1) & mem_mask,
\* so bit 0 of pc is clear; and a step that starts at a multiple of 4 and
\* whose jump, if any, goes to a multiple of 4 ends at a multiple of 4.
C17_JalrTarget ==
    /\ JalrStep =>
           /\ vm.pc = And32(And32(Add32(Rs1Before, IMM_I(last.inst)),
                                  <<65534, 65535>>),
                            last.before.mem_mask)
           /\ vm.pc[1] % 2 = 0
    /\ (DecodedStep /\ Aligned4(last.before.pc) /\ TargetAligned) =>
           Aligned4(vm.pc)

\* what does hold after every interpreter JALR: bit 0 of pc is clear
C17_Bit0Clear == JalrStep => vm.pc[1] % 2 = 0

\* the template the generated code ran last, when it ran one
ExecRan == last.op = "exec" /\ last.before.at <= Len(last.before.code)

Template == last.before.code[last.before.at]

\* C18: AUIPC with rd != 0 leaves (pc_of_this_inst + imm_u) & mem_mask in rd
\* under the interpreter and under the JIT, whatever imm_u is and wherever
\* the instruction lies.
C18_AuipcMasked ==
    /\ (DecodedStep /\ OPCODE(last.inst) = R5VM_OPCODE_AUIPC
            /\ RD(last.inst) # 0) =>
           vm.regs[RD(last.inst)] =
               And32(Add32(last.before.pc, IMM_U(last.inst)),
                     last.before.mem_mask)
    /\ (ExecRan /\ OPCODE(Template.inst) = R5VM_OPCODE_AUIPC
            /\ RD(Template.inst) # 0) =>
           jit.vm.regs[RD(Template.inst)] =
               And32(Add32(Sub32(Template.pc, <<4, 0>>), IMM_U(Template.inst)),
                     jit.vm.mem_mask)

\* the JIT's half of C18
C18_JitAuipcMasked ==
    (ExecRan /\ OPCODE(Template.inst) = R5VM_OPCODE_AUIPC
        /\ RD(Template.inst) # 0) =>
       jit.vm.regs[RD(Template.inst)] =
           And32(Add32(Sub32(Template.pc, <<4, 0>>), IMM_U(Template.inst)),
                 jit.vm.mem_mask)

\* the last interpreter step executed a JAL, or a JALR with funct3 == 0
LinkStep ==
    /\ DecodedStep
    /\ \/ OPCODE(last.inst) = R5VM_OPCODE_JAL
       \/ OPCODE(last.inst) = R5VM_OPCODE_JALR /\ FUNCT3(last.inst) = 0

\* the generated code ran the template of a JAL, or of a JALR with
\* funct3 == 0, and is not lost in the host
LinkExec ==
    /\ ExecRan
    /\ jit.st # "ub"
    /\ \/ OPCODE(Template.inst) = R5VM_OPCODE_JAL
       \/ OPCODE(Template.inst) = R5VM_OPCODE_JALR /\ FUNCT3(Template.inst) = 0

\* the address of the guest instruction of the template that ran
TemplateAt == Sub32(Template.pc, <<4, 0>>)

\* C19: JAL and JALR with rd != 0 leave (pc_of_this_inst + 4) & mem_mask in
\* rd under both engines; after a JAL the interpreter's pc is
\* (pc_of_this_inst + imm_j) & mem_mask, and the generated code goes on at
\* the host code of the guest instruction at that address.
C19_LinkAndJump ==
    /\ (LinkStep /\ RD(last.inst) # 0) =>
           vm.regs[RD(last.inst)] =
               And32(Add32(last.before.pc, <<4, 0>>), last.before.mem_mask)
    /\ (LinkStep /\ OPCODE(last.inst) = R5VM_OPCODE_JAL) =>
           vm.pc = And32(Add32(last.before.pc, IMM_J(last.inst)),
                         last.before.mem_mask)
    /\ (LinkExec /\ RD(Template.inst) # 0) =>
           jit.vm.regs[RD(Template.inst)] =
               And32(Add32(TemplateAt, <<4, 0>>), jit.vm.mem_mask)
    /\ (LinkExec /\ OPCODE(Template.inst) = R5VM_OPCODE_JAL) =>
           LET target == And32(Add32(TemplateAt, IMM_J(Template.inst)),
                               jit.vm.mem_mask)
           IN  /\ jit.st = "exec"
               /\ \E k \in jit.at..Len(jit.code) :
                     /\ And32(Sub32(jit.code[k].pc, <<4, 0>>),
                              jit.vm.mem_mask) = target
                     /\ jit.code[k].off = jit.code[jit.at].off

\* C19 happens: both engines have run the jal x3 that lies in the last word
\* of the sandbox, the link is 0 and execution is at 4
C19_Witness ==
    /\ run.st = "returned"
    /\ vm.regs[3] = Zero32
    /\ vm.pc = <<8, 0>>
    /\ LinkExec
    /\ OPCODE(Template.inst) = R5VM_OPCODE_JAL
    /\ RD(Template.inst) = 3
    /\ Template.pc = Zero32
    /\ jit.vm.regs[3] = Zero32

----------------------------------------------------------------------------
(* Properties of the loads and stores.                                     *)

\* the last interpreter step executed a load (ld) or a store (~ld) of n
\* bytes, in a sandbox of at least 4 bytes
AccessStep(ld, n) ==
    /\ DecodedStep
    /\ ~LtU32(last.before.mem_size, <<4, 0>>)
    /\ DOMAIN last.before.mem = 0..(ToNat(last.before.mem_size) - 1)
    /\ IF ld
       THEN /\ OPCODE(last.inst) = R5VM_OPCODE_LW
            /\ FUNCT3(last.inst) \in
                  (IF n = 4 THEN {2} ELSE IF n = 2 THEN {1, 5} ELSE {0, 4})
       ELSE /\ OPCODE(last.inst) = R5VM_OPCODE_SW
            /\ FUNCT3(last.inst) = (IF n = 4 THEN 2 ELSE IF n = 2 THEN 1 ELSE 0)

\* the address of the access of the last step, as a number below mem_size
AccessAt ==
    ToNat(And32(Add32(Rs1Before,
                      IF OPCODE(last.inst) = R5VM_OPCODE_LW
                      THEN IMM_I(last.inst) ELSE IMM_S(last.inst)),
                last.before.mem_mask))

\* the i-th byte of the access, counted round the end of the sandbox
Wrapped(i) == (AccessAt + i) % ToNat(last.before.mem_size)

\* the access of n bytes goes over the last byte of the sandbox
Straddles(n) == AccessAt + n > ToNat(last.before.mem_size)

\* byte i of the 32-bit value w
ByteOf(w, i) ==
    IF i = 0 THEN w[1] % 256 ELSE IF i = 1 THEN w[1] \div 256
    ELSE IF i = 2 THEN w[2] % 256 ELSE w[2] \div 256

\* loads and stores go round the end of the sandbox, and none of them is
\* refused
AccessWraps ==
    /\ \A n \in {1, 2, 4} :
          (AccessStep(TRUE, n) \/ AccessStep(FALSE, n)) => last.retcode
    /\ \A n \in {2, 4} :
          (AccessStep(TRUE, n) /\ Straddles(n) /\ RD(last.inst) # 0) =>
              LET b(i) == last.before.mem[Wrapped(i)]
                  lo   == b(0) + 256 * b(1)
              IN  vm.regs[RD(last.inst)] =
                      IF n = 4 THEN <<lo, b(2) + 256 * b(3)>>
                      ELSE IF FUNCT3(last.inst) = 1 THEN SExt16(lo)
                      ELSE <<lo, 0>>
    /\ \A n \in {2, 4} :
          (AccessStep(FALSE, n) /\ Straddles(n)) =>
              \A j \in DOMAIN vm.mem :
                  vm.mem[j] =
                      IF \E i \in 0..(n - 1) : Wrapped(i) = j
                      THEN ByteOf(last.before.regs[RS2(last.inst)],
                                  CHOOSE i \in 0..(n - 1) : Wrapped(i) = j)
                      ELSE last.before.mem[j]

\* C20: a halfword or word load that straddles mem_size - 1 yields the
\* little-endian value of the bytes counted on from offset 0, a straddling
\* SH or SW writes its bytes there, and no load or store is refused, at
\* whatever address.
C20_StraddleWraps == AccessWraps = TRUE

\* C20 in the build without R5VM_DEBUG
C20_ReleaseWraps == build.debug \/ AccessWraps

\* a word load and a word store that straddle the end have been executed
C20_LoadSeen ==
    AccessStep(TRUE, 4) /\ Straddles(4) /\ RD(last.inst) # 0 /\ last.retcode

C20_StoreSeen == AccessStep(FALSE, 4) /\ Straddles(4) /\ last.retcode

\* the reports of the two bounds checks of r5vm_step
BoundsReports == {"PC out of bounds", "Memory access out of bounds"}

\* C21: in the build with R5VM_DEBUG and in the build without it, no
\* instruction fetch, load or store stops the interpreter with an
\* out-of-bounds fault: no step reports one, whatever pc and address are.
C21_NoBoundsFault ==
    LoadOK => \A i \in DOMAIN errs : errs[i] \notin BoundsReports

\* C21 in the build without R5VM_DEBUG
C21_ReleaseNoBoundsFault ==
    (LoadOK /\ ~build.debug) =>
        \A i \in DOMAIN errs : errs[i] \notin BoundsReports

\* a fetch at mem_size - 4 was executed in the build without R5VM_DEBUG
C21_LastWordSeen ==
    /\ DecodedStep
    /\ ~build.debug
    /\ ~LtU32(last.before.mem_size, <<4, 0>>)
    /\ last.before.pc = Sub32(last.before.mem_size, <<4, 0>>)

----------------------------------------------------------------------------
(* Properties of the shifts and of the comparisons.                        *)

\* bit i of the 32-bit value w
Bit(w, i) == (w[(i \div 16) + 1] \div 2^(i % 16)) % 2

\* r is a shifted by n places: to the left ("l"), to the right with zeros
\* ("r"), to the right with copies of bit 31 ("a")
IsShift(kind, r, a, n) ==
    \A i \in 0..31 :
        Bit(r, i) =
            IF kind = "l" THEN (IF i >= n THEN Bit(a, i - n) ELSE 0)
            ELSE IF i + n <= 31 THEN Bit(a, i + n)
            ELSE IF kind = "a" THEN Bit(a, 31) ELSE 0

\* the low five bits of w, bit by bit
Low5(w) == Bit(w, 0) + 2 * Bit(w, 1) + 4 * Bit(w, 2) + 8 * Bit(w, 3)
              + 16 * Bit(w, 4)

\* inst is SLL, SRL or SRA (register count) or SLLI, SRLI or SRAI
IsShiftInst(inst) ==
    \/ /\ OPCODE(inst) = R5VM_OPCODE_R_TYPE
       /\ \/ FUNCT3(inst) = 1 /\ FUNCT7(inst) = 0
          \/ FUNCT3(inst) = 5 /\ FUNCT7(inst) \in {0, 32}
    \/ /\ OPCODE(inst) = R5VM_OPCODE_I_TYPE
       /\ \/ FUNCT3(inst) = 1 /\ FUNCT7(inst) = 0
          \/ FUNCT3(inst) = 5 /\ FUNCT7(inst) \in {0, 32}

ShiftKind(inst) ==
    IF FUNCT3(inst) = 1 THEN "l" ELSE IF FUNCT7(inst) = 32 THEN "a" ELSE "r"

\* the shift source of inst in register file regs: R[rs2], or the immediate
ShiftSource(inst, regs) ==
    IF OPCODE(inst) = R5VM_OPCODE_R_TYPE THEN regs[RS2(inst)] ELSE IMM_I(inst)

\* C22: SLL, SRL, SRA shift R[rs1] by R[rs2] & 0x1F and SLLI, SRLI, SRAI by
\* imm & 0x1F, whatever the upper bits of the shift source are, under the
\* interpreter and under the JIT's templates.
C22_ShiftCount ==
    /\ (DecodedStep /\ IsShiftInst(last.inst) /\ RD(last.inst) # 0) =>
           IsShift(ShiftKind(last.inst), vm.regs[RD(last.inst)], Rs1Before,
                   Low5(ShiftSource(last.inst, last.before.regs)))
    /\ (ExecRan /\ jit.st # "ub" /\ IsShiftInst(Template.inst)
            /\ RD(Template.inst) # 0) =>
           IsShift(ShiftKind(Template.inst), jit.vm.regs[RD(Template.inst)],
                   last.before.vm.regs[RS1(Template.inst)],
                   Low5(ShiftSource(Template.inst, last.before.vm.regs)))

\* C22 happens: both engines have shifted 0xFFFFFFFF left by a count of 33,
\* that is by 1
C22_Witness ==
    /\ run.st = "returned"
    /\ ExecRan
    /\ Template.inst = EncR(0, 2, 1, 1, 3, R5VM_OPCODE_R_TYPE)
    /\ last.before.vm.regs[1] = Max32
    /\ last.before.vm.regs[2] = <<33, 0>>
    /\ jit.vm.regs[3] = <<65534, 65535>>
    /\ vm.regs[3] = <<65534, 65535>>

\* the last interpreter step executed an I-type instruction with
\* funct3 == 5 and rd != 0
Funct3Is5Step ==
    /\ DecodedStep
    /\ OPCODE(last.inst) = R5VM_OPCODE_I_TYPE
    /\ FUNCT3(last.inst) = 5
    /\ RD(last.inst) # 0

\* the generated code ran the place of such an instruction
Funct3Is5Exec ==
    /\ ExecRan
    /\ jit.st # "ub"
    /\ OPCODE(Template.inst) = R5VM_OPCODE_I_TYPE
    /\ FUNCT3(Template.inst) = 5
    /\ RD(Template.inst) # 0

BelowUnsigned(a, b) == a[2] < b[2] \/ (a[2] = b[2] /\ a[1] < b[1])

BelowSigned(a, b) ==
    IF Bit(a, 31) # Bit(b, 31) THEN Bit(a, 31) = 1 ELSE BelowUnsigned(a, b)

\* the second operand of the comparison of the last interpreter step
CmpOperand ==
    IF OPCODE(last.inst) = R5VM_OPCODE_I_TYPE THEN IMM_I(last.inst)
    ELSE last.before.regs[RS2(last.inst)]

\* C24: SLT, SLTI, BLT and BGE compare as signed 32-bit integers, SLTU,
\* SLTIU, BLTU and BGEU as unsigned; a branch that is taken sets pc to
\* (pc_of_this_inst + imm_b) & mem_mask and one that is not taken leaves
\* pc at (pc_of_this_inst + 4) & mem_mask.
C24_SignedUnsigned ==
    /\ (DecodedStep /\ RD(last.inst) # 0 /\ FUNCT3(last.inst) \in {2, 3}
            /\ OPCODE(last.inst) \in {R5VM_OPCODE_R_TYPE, R5VM_OPCODE_I_TYPE}) =>
           vm.regs[RD(last.inst)] =
               IF FUNCT3(last.inst) = 2
               THEN Bool32(BelowSigned(Rs1Before, CmpOperand))
               ELSE Bool32(BelowUnsigned(Rs1Before, CmpOperand))
    /\ (DecodedStep /\ OPCODE(last.inst) = R5VM_OPCODE_BRANCH
            /\ FUNCT3(last.inst) \in {0, 1, 4, 5, 6, 7}) =>
           LET f3    == FUNCT3(last.inst)
               a     == Rs1Before
               b     == CmpOperand
               taken == IF f3 = 0 THEN a = b
                        ELSE IF f3 = 1 THEN a # b
                        ELSE IF f3 = 4 THEN BelowSigned(a, b)
                        ELSE IF f3 = 5 THEN ~BelowSigned(a, b)
                        ELSE IF f3 = 6 THEN BelowUnsigned(a, b)
                        ELSE ~BelowUnsigned(a, b)
           IN  /\ last.retcode
               /\ vm.pc = And32(Add32(last.before.pc,
                                      IF taken THEN IMM_B(last.inst)
                                      ELSE <<4, 0>>),
                                last.before.mem_mask)

\* C24 happens: SLT with rs1 == 0xFFFFFFFF and rs2 == 33 has given 1
C24_Witness ==
    /\ DecodedStep
    /\ last.inst = EncR(0, 2, 1, 2, 3, R5VM_OPCODE_R_TYPE)
    /\ Rs1Before = Max32
    /\ last.before.regs[2] = <<33, 0>>
    /\ vm.regs[3] = <<1, 0>>

\* a branch whose target goes through the mask has been taken
C24_WrapSeen ==
    /\ DecodedStep
    /\ OPCODE(last.inst) = R5VM_OPCODE_BRANCH
    /\ ~LtU32(last.before.mem_size, <<4, 0>>)
    /\ LtU32(last.before.pc, vm.pc)
    /\ IMM_B(last.inst)[2] = 65535

----------------------------------------------------------------------------
(* Properties of the JIT driver: r5jit_compile, the dispatch table and the  *)
(* run of the generated code.                                               *)

\* r5jit_x86 has just returned from r5jit_compile
Compiled == last.op = "compile"

\* C25: the generated code is executed only after a compilation with no
\* error: when an error was raised during emission (an illegal instruction,
\* or the error flag of the buffer because the cursor reached its size),
\* r5jit_x86 does not call the generated function and returns failure.
C25_RunsOnlyErrorFree ==
    /\ (Compiled /\ jit.error) => jit.st = "failed"
    /\ last.op = "exec" => ~last.before.error

\* what does hold: the code of a program with an instruction that has no
\* template is never run
C25_RefusedNotRun ==
    (\E a \in DOMAIN jit.ip_map :
        NoTemplate(Fetch([jit.vm EXCEPT !.pc = U32(a)]), build.debug)) =>
        jit.st \notin {"exec", "done"} /\ last.op # "exec"

\* C26: when the compilation fails, r5jit_x86 leaves the VM as it was just
\* after reset: all registers zero, pc == entry, the sandbox unchanged.
C26_FailureLeavesReset ==
    (Compiled /\ jit.st = "failed") =>
        /\ jit.vm.regs = NoRegs
        /\ jit.vm.pc = jit.vm.entry
        /\ jit.vm.mem = vm.mem

\* what does hold after a failed compilation: registers and sandbox are
\* those of the loaded image
C26_FailureKeepsData ==
    (Compiled /\ jit.st = "failed") =>
        /\ jit.vm.regs = NoRegs
        /\ jit.vm.mem = vm.mem

\* the addresses of the instructions of the code region
CodeAddrs(v) ==
    {p \in 0..(ToNat(v.mem_size) - 1) :
        /\ ToNat(v.code_offset) <= p
        /\ p < ToNat(v.code_offset) + ToNat(v.code_size)
        /\ (p - ToNat(v.code_offset)) % 4 = 0}

\* every instruction of the code region has a slot, written with the cursor
\* at which its template starts, and the slots do not decrease
TableFilled ==
    /\ jit.st = "exec"
    /\ CodeAddrs(jit.vm) \subseteq DOMAIN jit.ip_map
    /\ Len(jit.code) = Cardinality(CodeAddrs(jit.vm))
    /\ \A k \in 1..Len(jit.code) :
          /\ ToNat(jit.vm.code_offset) + 4 * (k - 1) \in DOMAIN jit.ip_map
          /\ jit.ip_map[ToNat(jit.vm.code_offset) + 4 * (k - 1)] = jit.code[k].off
    /\ \A p, q \in CodeAddrs(jit.vm) :
          (p <= q /\ {p, q} \subseteq DOMAIN jit.ip_map) =>
              jit.ip_map[p] <= jit.ip_map[q]

\* r5jit_compile has run on a program whose instructions all have templates
\* and whose host code fits the buffer
CompiledWhole == Compiled /\ ~jit.error /\ jit.st \notin {"failed", "overflow"}

\* C27: r5jit_compile visits every address of the code region once, in
\* ascending order, and terminates; it stores in ip_map[p] the cursor before
\* the template of p is emitted, so that after a successful compile every
\* instruction of the code region has a written slot and the slots do not
\* decrease.
C27_TableFilled == CompiledWhole => TableFilled

\* what does hold: the table is filled for code loaded at address 0
C27_FilledAtZero ==
    (CompiledWhole /\ jit.vm.code_offset = Zero32) => TableFilled

\* the slot that template k reads when its branch is taken, or its JAL runs
JumpSlot(k) ==
    LET t == jit.code[k]
    IN  MemIdx(jit.vm, Add32(Sub32(t.pc, <<4, 0>>),
                             IF OPCODE(t.inst) = R5VM_OPCODE_JAL
                             THEN IMM_J(t.inst) ELSE IMM_B(t.inst)))

\* the templates of the branches and of the JALs
Jumps ==
    {k \in 1..Len(jit.code) :
        \/ OPCODE(jit.code[k].inst) = R5VM_OPCODE_JAL
        \/ /\ OPCODE(jit.code[k].inst) = R5VM_OPCODE_BRANCH
           /\ FUNCT3(jit.code[k].inst) \notin {2, 3}}

\* C28: for every branch or JAL of the code region, also one whose target
\* wraps through mem_mask, the slot that its template reads lies inside the
\* table (of code_size entries), was written during the compilation and
\* holds the host address of the template of an instruction of the code
\* region at a multiple of 4.
C28_JumpSlotsWritten ==
    (Compiled /\ jit.st = "exec") =>
        \A k \in Jumps :
            /\ JumpSlot(k) >= 0
            /\ JumpSlot(k) < ToNat(jit.vm.code_size)
            /\ JumpSlot(k) \in DOMAIN jit.ip_map
            /\ JumpSlot(k) % 4 = 0
            /\ JumpSlot(k) \in CodeAddrs(jit.vm)

\* what does hold: a slot that is that of an instruction of code loaded at
\* address 0 lies inside the table and was written
C28_CodeTargetsWritten ==
    (Compiled /\ jit.st = "exec" /\ ~jit.error
        /\ jit.vm.code_offset = Zero32) =>
        \A k \in Jumps :
            JumpSlot(k) \in CodeAddrs(jit.vm) =>
                /\ JumpSlot(k) < ToNat(jit.vm.code_size)
                /\ JumpSlot(k) \in DOMAIN jit.ip_map

\* a jump that wraps to an instruction of the code region was compiled
C28_WrapSeen ==
    /\ Compiled
    /\ jit.st = "exec"
    /\ \E k \in Jumps :
          /\ JumpSlot(k) \in CodeAddrs(jit.vm)
          /\ JumpSlot(k) > ToNat(jit.code[k].pc)
          /\ IMM_J(jit.code[k].inst)[2] = 65535

\* the generated code ran the template of a JALR (funct3 == 0)
JalrExec ==
    /\ ExecRan
    /\ OPCODE(Template.inst) = R5VM_OPCODE_JALR
    /\ FUNCT3(Template.inst) = 0

\* rs1 + imm_i as the template adds them, behind its write of the link
JalrSum ==
    LET v  == last.before.vm
        rd == RD(Template.inst)
        v1 == IF rd = 0 THEN v ELSE SetR(v, rd, Template.pc)
    IN  Add32(v1.regs[RS1(Template.inst)], IMM_I(Template.inst))

\* C29: the JALR template jumps through the slot of
\* ((rs1 + imm_i) & ~1) & mem_mask, the address that the interpreter's JALR
\* puts in pc, for every value of rs1 + imm_i.
C29_JalrSlot ==
    JalrExec =>
        RunJalr(last.before.vm, Template.inst, Template.pc).to =
            ToNat(And32(And32(JalrSum, <<65534, 65535>>),
                        last.before.vm.mem_mask))

\* what does hold: the slot is that of the interpreter's pc when rs1 + imm_i
\* is a multiple of 4 below mem_size / 4
C29_SmallTargets ==
    (JalrExec /\ JalrSum[2] = 0 /\ JalrSum[1] % 4 = 0
        /\ 4 * JalrSum[1] < ToNat(last.before.vm.mem_size)) =>
        RunJalr(last.before.vm, Template.inst, Template.pc).to = JalrSum[1]

\* a JALR template ran with such a sum
C29_SmallSeen ==
    /\ JalrExec
    /\ JalrSum[2] = 0
    /\ JalrSum[1] % 4 = 0
    /\ JalrSum[1] > 0
    /\ 4 * JalrSum[1] < ToNat(last.before.vm.mem_size)

----------------------------------------------------------------------------
(* Properties of the code buffer.                                          *)

\* the last emit call tried to write with pos == mem_size
WriteAtEnd ==
    /\ last.op = "emit"
    /\ last.before.pos + last.tries > last.before.mem_size

\* C30: for any sequence of emit1, emit4 and emit calls pos <= mem_size
\* holds, no byte is written at an index >= mem_size, and once a write is
\* attempted with pos == mem_size the error flag is set, stays set, and pos
\* and the contents of the buffer change no more.
C30_BufferBounded ==
    /\ jit.pos <= jit.mem_size
    /\ DOMAIN jit.mem = 0..(jit.mem_size - 1)
    /\ WriteAtEnd => jit.st = "emit" /\ jit.error /\ jit.pos = jit.mem_size
    /\ (last.op = "emit" /\ last.before.error) =>
           /\ jit.error
           /\ jit.pos = last.before.pos
           /\ jit.mem = last.before.mem

\* what does hold in every build: the cursor and the bytes written stay
\* inside the buffer; and with assert compiled out, all of C30
C30_InsideBuffer ==
    /\ jit.pos <= jit.mem_size
    /\ DOMAIN jit.mem = 0..(jit.mem_size - 1)
    /\ ~build.asserts => C30_BufferBounded

\* an emit call on a buffer whose error flag was set has returned
C30_FullSeen ==
    /\ last.op = "emit"
    /\ last.before.error
    /\ WriteAtEnd
    /\ \E i \in DOMAIN jit.mem : jit.mem[i] # 0

----------------------------------------------------------------------------
(* Properties of r5vm_init of the first version.                           *)

\* the nonzero powers of two of 32 bits
PowersOfTwo ==
    {<<2^k, 0>> : k \in 0..15} \cup {<<0, 2^k>> : k \in 0..15}

\* C31: r5vm_init returns true exactly when vm and mem are not NULL and
\* mem_size is a nonzero power of two; on success mem_mask == mem_size - 1,
\* all registers and pc are zero and vm->mem == mem; on failure with vm not
\* NULL the record is all zero.
C31_InitContract ==
    last.op = "init" =>
        /\ last.ret <=> (last.vmp # 0 /\ last.mem # 0
                            /\ last.mem_size \in PowersOfTwo)
        /\ last.ret =>
              /\ Add32(vm.mem_mask, <<1, 0>>) = last.mem_size
              /\ vm.mem_size = last.mem_size
              /\ vm.regs = NoRegs
              /\ vm.pc = Zero32
              /\ vm.mem = last.mem
        /\ (~last.ret /\ last.vmp # 0) => vm = ZeroVM0
        /\ last.vmp = 0 => vm = last.before

\* C31 happens: r5vm_init has bound a record that held junk to a buffer of
\* 2^31 bytes
C31_Witness ==
    /\ last.op = "init"
    /\ last.ret
    /\ last.before.pc # Zero32
    /\ last.mem_size = <<0, 2^15>>
    /\ vm.mem_mask = <<65535, 2^15 - 1>>

\* r5vm_init has refused a size that is no power of two and cleared the
\* record
C31_RefusedSeen ==
    /\ last.op = "init"
    /\ ~last.ret
    /\ last.vmp # 0
    /\ last.mem # 0
    /\ last.mem_size = <<96, 0>>
    /\ vm = ZeroVM0

----------------------------------------------------------------------------
(* More properties of JALR and of the entry of the generated code.         *)

\* the dispatch table slot that the JALR template reaches from the sum s of
\* base and immediate (shl eax, 2; and eax, mem_mask & ~1; jmp [table + eax])
SlotOfSum(s, mask) ==
    ToNat(And32(Shl32(s, 2), <<(mask[1] \div 2) * 2, mask[2]>>)) \div 4

\* C32: a JALR whose rd is its rs1 jumps to the target computed from the
\* value that rs1 held before the instruction, not from the link address
\* written to rd, under the interpreter and in the JIT template.
C32_JalrOldBase ==
    /\ (JalrStep /\ RD(last.inst) = RS1(last.inst)) =>
           vm.pc = And32(And32(Add32(Rs1Before, IMM_I(last.inst)),
                               <<65534, 65535>>),
                         last.before.mem_mask)
    /\ (JalrExec /\ RD(Template.inst) = RS1(Template.inst)) =>
           RunJalr(last.before.vm, Template.inst, Template.pc).to =
               SlotOfSum(Add32(last.before.vm.regs[RS1(Template.inst)],
                               IMM_I(Template.inst)),
                         last.before.vm.mem_mask)

\* what does hold: a JALR whose rd is not its rs1 uses the value of rs1
C32_OtherBase ==
    /\ (JalrStep /\ RD(last.inst) # RS1(last.inst)) =>
           vm.pc = And32(And32(Add32(Rs1Before, IMM_I(last.inst)),
                               <<65534, 65535>>),
                         last.before.mem_mask)
    /\ (JalrExec /\ RD(Template.inst) # RS1(Template.inst)) =>
           RunJalr(last.before.vm, Template.inst, Template.pc).to =
               SlotOfSum(Add32(last.before.vm.regs[RS1(Template.inst)],
                               IMM_I(Template.inst)),
                         last.before.vm.mem_mask)

\* the template of a JALR with rd == rs1 != x0 has run
C32_JitSeen ==
    /\ JalrExec
    /\ RD(Template.inst) = RS1(Template.inst)
    /\ RD(Template.inst) # 0

\* the generated function has been built and is about to be called: the
\* guest instruction whose template it runs first
FirstTemplateAt ==
    IF jit.at <= Len(jit.code)
    THEN And32(Sub32(jit.code[jit.at].pc, <<4, 0>>), jit.vm.mem_mask)
    ELSE Add32(jit.vm.code_offset, jit.vm.code_size)

\* C33: the generated function begins with the guest instruction at
\* vm->entry, the one that the interpreter executes first after reset (vm is
\* the record as r5vm_load and its r5vm_reset left it), also for an image
\* whose entry is not code_offset.
C33_BeginsAtEntry ==
    (Compiled /\ jit.st = "exec" /\ ~jit.error) =>
        /\ vm.pc = jit.vm.entry
        /\ FirstTemplateAt = vm.pc

\* what does hold: the generated function begins at code_offset
C33_BeginsAtCodeOffset ==
    (Compiled /\ jit.st = "exec" /\ ~jit.error) =>
        FirstTemplateAt = jit.vm.code_offset

\* an image entered behind its first instruction went through the JIT: the
\* generated code has run the instruction in front of the entry
C33_SkippedSeen ==
    /\ last.op = "exec"
    /\ jit.st = "done"
    /\ vm.pc = <<4, 0>>
    /\ jit.vm.regs[5] = <<1, 0>>
    /\ jit.vm.regs[6] = <<2, 0>>

\* C34: every index of the dispatch table that r5jit_compile writes lies
\* inside the table that r5jit_x86 allocated (code_size entries), for every
\* image that was loaded, also with load_addr > 0.
C34_IndexInsideTable ==
    \A a \in DOMAIN jit.ip_map : a < ToNat(jit.vm.code_size)

\* what does hold: the indexes written are inside the table for code loaded
\* at address 0, and in a build with assert, which ends the program in front
\* of the first write behind the table
C34_InsideAtZero ==
    (jit.vm.code_offset = Zero32 \/ build.asserts) => C34_IndexInsideTable

\* the program was ended by the assert of line 860
C34_AssertSeen ==
    /\ Compiled
    /\ jit.st = "assert"
    /\ jit.vm.code_offset # Zero32

----------------------------------------------------------------------------
(* Properties of the load and store templates.                             *)

\* the generated code ran the template of a load or store of more than one
\* byte: LH, LHU, LW with rd != 0, SH, SW
WideAccessExec ==
    /\ ExecRan
    /\ \/ /\ OPCODE(Template.inst) = R5VM_OPCODE_LW
          /\ FUNCT3(Template.inst) \in {1, 2, 5}
          /\ RD(Template.inst) # 0
       \/ /\ OPCODE(Template.inst) = R5VM_OPCODE_SW
          /\ FUNCT3(Template.inst) \in {1, 2}

\* the masked address of the access of the template that ran
WideAccessAt ==
    And32(Add32(last.before.vm.regs[RS1(Template.inst)],
                IF OPCODE(Template.inst) = R5VM_OPCODE_LW
                THEN IMM_I(Template.inst) ELSE IMM_S(Template.inst)),
          last.before.vm.mem_mask)

\* what the interpreter's step of a build without R5VM_DEBUG makes of the
\* instruction of the template that ran
InterpreterDoes ==
    r5vm_step([last.before.vm EXCEPT !.pc = TemplateAt], FALSE).vm

\* C35: a load or store template touches only bytes of the sandbox: for LH,
\* LHU, LW, SH and SW at a masked address in the last 3 bytes of the sandbox
\* it accesses the wrapped bytes that the interpreter accesses, and no byte
\* behind the end of the sandbox.
C35_TemplateWraps ==
    WideAccessExec =>
        /\ jit.st # "ub"
        /\ jit.vm.regs = InterpreterDoes.regs
        /\ jit.vm.mem = InterpreterDoes.mem

\* what does hold: the template does what the interpreter does when all the
\* bytes of the access lie in front of the end of the sandbox
C35_InsideAgrees ==
    (WideAccessExec
        /\ ToNat(WideAccessAt) + 4 <= ToNat(last.before.vm.mem_size)) =>
        /\ jit.st # "ub"
        /\ jit.vm.regs = InterpreterDoes.regs
        /\ jit.vm.mem = InterpreterDoes.mem

\* a store template has written in front of the end of the sandbox
C35_StoreSeen ==
    /\ WideAccessExec
    /\ OPCODE(Template.inst) = R5VM_OPCODE_SW
    /\ jit.st = "exec"
    /\ jit.vm.mem # last.before.vm.mem

----------------------------------------------------------------------------
(* Frame properties and decode faults of the interpreter.                  *)

\* the last interpreter step changed nothing but the n bytes of a store
StoreFrame(n) ==
    /\ vm.regs = last.before.regs
    /\ \A j \in DOMAIN vm.mem :
          vm.mem[j] =
              IF \E i \in 0..(n - 1) : Wrapped(i) = j
              THEN ByteOf(last.before.regs[RS2(last.inst)],
                          CHOOSE i \in 0..(n - 1) : Wrapped(i) = j)
              ELSE last.before.mem[j]

\* the last interpreter step executed a branch (of a funct3 that is one) or
\* a FENCE
BranchOrFenceStep ==
    /\ DecodedStep
    /\ \/ /\ OPCODE(last.inst) = R5VM_OPCODE_BRANCH
          /\ FUNCT3(last.inst) \notin {2, 3}
       \/ OPCODE(last.inst) = R5VM_OPCODE_FENCE

StoresAndBranchesFrame ==
    /\ \A n \in {1, 2, 4} : AccessStep(FALSE, n) => StoreFrame(n)
    /\ BranchOrFenceStep =>
           /\ vm.regs = last.before.regs
           /\ vm.mem = last.before.mem

\* C36: an interpreter store changes exactly the bytes it names, 1 for SB,
\* 2 for SH, 4 for SW at (addr + i) & mem_mask, to the low bytes of R[rs2]
\* in little-endian order, and leaves every other byte and every register
\* as they were; branches and FENCE change no register and no byte.
C36_StoreFrame == StoresAndBranchesFrame = TRUE

\* C36 in the build without R5VM_DEBUG
C36_ReleaseFrame == build.debug \/ StoresAndBranchesFrame

\* a store of a halfword into the last two bytes, and a FENCE, have been
\* executed
C36_StoreSeen ==
    /\ AccessStep(FALSE, 2)
    /\ last.retcode
    /\ AccessAt + 2 = ToNat(last.before.mem_size)
    /\ vm.mem # last.before.mem

C36_FenceSeen ==
    /\ DecodedStep
    /\ OPCODE(last.inst) = R5VM_OPCODE_FENCE
    /\ last.retcode

\* the last interpreter step decoded an instruction of a supported opcode
\* whose funct3 has no meaning; every funct3 of the R-type and I-type
\* opcodes has one
IllegalFunct3Step ==
    /\ DecodedStep
    /\ LET op == OPCODE(last.inst)
           f3 == FUNCT3(last.inst)
       IN  \/ op = R5VM_OPCODE_LW /\ f3 \in {3, 6, 7}
           \/ op = R5VM_OPCODE_SW /\ f3 \in 3..7
           \/ op = R5VM_OPCODE_BRANCH /\ f3 \in {2, 3}
           \/ op = R5VM_OPCODE_JALR /\ f3 # 0

\* C37: without R5VM_DEBUG an instruction of a legal opcode and a funct3
\* with no meaning changes nothing but pc, which becomes (pc + 4) & mem_mask,
\* and the step returns continue; with R5VM_DEBUG the instruction is handed
\* to the error sink, once, and the step returns stop.
C37_IllegalFunct3 ==
    IllegalFunct3Step =>
        IF build.debug
        THEN /\ ~last.retcode
             /\ Len(last.calls) = 1
             /\ last.calls[1].instr = last.inst
             /\ errs # <<>>
             /\ errs[Len(errs)] = last.calls[1].msg
        ELSE /\ last.retcode
             /\ last.calls = <<>>
             /\ vm = [last.before EXCEPT !.pc = NextPc(last.before)]
             /\ Len(out) = last.outlen

\* a store of width 3 has been skipped by the release build
C37_Witness ==
    /\ IllegalFunct3Step
    /\ ~build.debug
    /\ OPCODE(last.inst) = R5VM_OPCODE_SW
    /\ last.retcode
    /\ vm.pc = NextPc(last.before)

\* a JALR of funct3 1 has been reported by the debug build
C37_ReportSeen ==
    /\ IllegalFunct3Step
    /\ build.debug
    /\ OPCODE(last.inst) = R5VM_OPCODE_JALR
    /\ ~last.retcode
    /\ last.calls # <<>>
    /\ last.calls[1].msg = "Unknown JALR funct3"

\* the last interpreter step of the R5VM_DEBUG build decoded an R-type or
\* shift-immediate instruction whose funct7 is neither 0x00 nor 0x20
IllegalFunct7Step ==
    /\ DecodedStep
    /\ build.debug
    /\ FUNCT7(last.inst) \notin {0, 32}
    /\ \/ OPCODE(last.inst) = R5VM_OPCODE_R_TYPE
       \/ /\ OPCODE(last.inst) = R5VM_OPCODE_I_TYPE
          /\ FUNCT3(last.inst) \in {1, 5}

\* C38: in the debug build an R-type or shift-immediate instruction whose
\* funct7 is outside {0x00, 0x20} is a decode fault: it is handed to the
\* error sink, the step returns stop, and it is not executed as a base
\* operation, so no register changes.
C38_Funct7Fault ==
    IllegalFunct7Step =>
        /\ ~last.retcode
        /\ Len(last.calls) = 1
        /\ vm.regs = last.before.regs

\* what the debug build does with such an instruction: no report, the step
\* returns continue; the shift-immediates change no register
C38_Funct7Ignored ==
    IllegalFunct7Step =>
        /\ last.retcode
        /\ last.calls = <<>>
        /\ OPCODE(last.inst) = R5VM_OPCODE_I_TYPE =>
               vm.regs = last.before.regs

\* funct7 0x01 with funct3 0 (MUL of the multiply extension) has been
\* executed as ADD by the debug build
C38_MulAsAdd ==
    /\ IllegalFunct7Step
    /\ OPCODE(last.inst) = R5VM_OPCODE_R_TYPE
    /\ FUNCT7(last.inst) = 1
    /\ FUNCT3(last.inst) = 0
    /\ RD(last.inst) = 3
    /\ last.retcode
    /\ vm.regs[3] = Add32(last.before.regs[1], last.before.regs[2])
    /\ vm.regs[3] # last.before.regs[3]

\* the eleven opcodes of the switch of r5vm_step
SupportedOpcodes ==
    {R5VM_OPCODE_R_TYPE, R5VM_OPCODE_I_TYPE, R5VM_OPCODE_AUIPC,
     R5VM_OPCODE_LUI, R5VM_OPCODE_LW, R5VM_OPCODE_SW, R5VM_OPCODE_BRANCH,
     R5VM_OPCODE_JAL, R5VM_OPCODE_JALR, R5VM_OPCODE_SYSTEM,
     R5VM_OPCODE_FENCE}

\* the last interpreter step fetched a word of an unsupported opcode, in a
\* sandbox of at least 4 bytes
UnknownOpcodeStep ==
    /\ LoadOK
    /\ last.op = "step"
    /\ run.st # "fault"
    /\ ~LtU32(last.before.mem_size, <<4, 0>>)
    /\ OPCODE(last.inst) \notin SupportedOpcodes

\* the last step called the error sink once, with the address of the
\* instruction it fetched and the instruction word, returned stop, ended
\* r5vm_run and changed no register and no byte
ReportedAndStopped ==
    /\ Len(last.calls) = 1
    /\ last.calls[1].pc = last.pc
    /\ LtU32(last.calls[1].pc, last.before.mem_size)
    /\ last.calls[1].instr = last.inst
    /\ ~last.retcode
    /\ run.st = "returned"
    /\ vm.regs = last.before.regs
    /\ vm.mem = last.before.mem

\* C39: a fetched word whose opcode is none of the eleven supported ones
\* makes the step call the error sink exactly once with the address of the
\* faulting instruction, a value below mem_size also for the instruction at
\* mem_size - 4, and the instruction word, return stop so that r5vm_run
\* stops at that step, and leave registers and sandbox as they were.
C39_UnknownOpcode == UnknownOpcodeStep => ReportedAndStopped

\* C39 for the instructions inside a sandbox behind which pc + 4 does not
\* wrap
C39_AwayFromEnd ==
    (/\ UnknownOpcodeStep
     /\ DecodedStep
     /\ LtU32(last.pc, last.before.mem_size)
     /\ NextPc(last.before) = Add32(last.pc, <<4, 0>>)) => ReportedAndStopped

\* an unknown opcode at mem_size - 4 has been reported by the release build
C39_LastWordSeen ==
    /\ UnknownOpcodeStep
    /\ ~build.debug
    /\ Add32(last.pc, <<4, 0>>) = last.before.mem_size
    /\ Len(last.calls) = 1
    /\ last.calls[1].pc = <<65532, 65535>>

\* an unknown opcode in front of the end has been reported
C39_ReportSeen ==
    /\ UnknownOpcodeStep
    /\ last.pc = <<12, 0>>
    /\ ReportedAndStopped

----------------------------------------------------------------------------
(* The host stack under the generated code.                                *)

\* C40: while the generated code runs, the host stack holds at every
\* boundary between two guest instructions the return address and the two
\* registers the prolog pushed, and nothing else; every return, at an EBREAK
\* template or at the epilog behind the last template, gives ebx and edi the
\* values the prolog saved and goes back to the caller of the generated code.
C40_StackBalanced ==
    LoadOK =>
        /\ jit.st = "exec" => jit.stack = <<"caller", "edi", "ebx">>
        /\ jit.st = "done" =>
               /\ jit.popped = <<"ebx", "edi", "caller">>
               /\ jit.stack = <<>>

\* the generated code has returned at the epilog behind the last template,
\* after two ECALL templates
C40_Witness ==
    /\ last.op = "exec"
    /\ jit.st = "done"
    /\ last.before.at > Len(jit.code)
    /\ Len(jit.out) = 2
    /\ jit.popped = <<"ebx", "edi", "caller">>

\* the generated code has returned at an EBREAK template
C40_EbreakSeen ==
    /\ ExecRan
    /\ jit.st = "done"
    /\ last.before.at <= Len(jit.code)
    /\ jit.code[last.before.at].inst = EBREAK
    /\ jit.popped = <<"ebx", "edi", "caller">>

============================================================================
